---- MODULE Spec2Model ----
(***************************************************************************)
(* Slot-based time range extraction (extract_time_range.py):               *)
(*   SlotParser (regular-expression rule tables, zh / en)                  *)
(*     -> TimeRangeExtractor._remove_overlapping_matches                   *)
(*     -> TimeSlotCombiner.combine (merge + decision cascade + calendar)   *)
(*                                                                         *)
(* Characters of a text are modelled one symbol per character.  ASCII      *)
(* characters are the one-character strings themselves; a CJK character    *)
(* is written as its pinyin name (at least two letters), e.g. "tian" for   *)
(* U+5929, "qian" for U+524D.  The table is in the comment at ZhChars.     *)
(*                                                                         *)
(* Specifications:                                                         *)
(*   Spec        construction, extract and extract_time_range calls        *)
(*   SpecClamp   the same operations on day offsets with a decimal count   *)
(*   SpecConc    extract calls interleaved on one shared instance          *)
(*   SpecResolve direct calls of the overlap resolver                      *)
(*   SpecMerge   direct calls of TimeSlot.merge_with                       *)
(*   SpecCombine direct calls of TimeSlotCombiner.combine                  *)
(*   SpecCalendar direct calls of combine on the calendar branches         *)
(*   SpecRanges  direct calls of combine on offsets and explicit dates     *)
(*   SpecAll     construction and extract_all calls                        *)
(*   SpecParse   direct calls of SlotParserBase.parse                      *)
(*   SpecSlot    direct calls of TimeSlot.has_date and has_offset          *)
(***************************************************************************)
EXTENDS Integers, Sequences, FiniteSets, TLC

(***************************************************************************)
(* Python values                                                           *)
(***************************************************************************)
\* None of an Optional[int] field (no int field of a slot is ever negative)
None == -1

Max2(a, b) == IF a >= b THEN a ELSE b
Min2(a, b) == IF a <= b THEN a ELSE b
Abs(a) == IF a < 0 THEN -a ELSE a

\* a call's outcome: a returned list, or a propagated exception
Ok(list) == [exc |-> "none", val |-> list]
Raise(e) == [exc |-> e, val |-> <<>>]

(***************************************************************************)
(* datetime / calendar arithmetic of the standard library, as used by the  *)
(* combiner: datetime.datetime(...), + timedelta, weekday(), monthrange    *)
(***************************************************************************)
MINYEAR == 1
MAXYEAR == 9999

IsLeap(y) == (y % 4 = 0) /\ ((y % 100 # 0) \/ (y % 400 = 0))

\* calendar.monthrange(year, month)[1]
monthrange(y, m) ==
  IF m = 2 THEN (IF IsLeap(y) THEN 29 ELSE 28)
  ELSE IF m \in {4, 6, 9, 11} THEN 30 ELSE 31

DaysBeforeYear(y) ==
  (y - 1) * 365 + ((y - 1) \div 4) - ((y - 1) \div 100) + ((y - 1) \div 400)

RECURSIVE DaysBeforeMonth(_, _)
DaysBeforeMonth(y, m) ==
  IF m <= 1 THEN 0 ELSE DaysBeforeMonth(y, m - 1) + monthrange(y, m - 1)

\* date.toordinal(): 0001-01-01 is day 1
toordinal(y, m, d) == DaysBeforeYear(y) + DaysBeforeMonth(y, m) + d

MaxOrdinal == toordinal(MAXYEAR, 12, 31)

\* the year holding ordinal n
RECURSIVE YearUp(_, _)
YearUp(y, n) == IF DaysBeforeYear(y + 1) < n THEN YearUp(y + 1, n) ELSE y
YearOfOrdinal(n) == YearUp(Max2(1, (n \div 366)), n)

RECURSIVE MonthUp(_, _, _)
MonthUp(y, m, rest) ==
  IF rest > monthrange(y, m) THEN MonthUp(y, m + 1, rest - monthrange(y, m)) ELSE m

\* date.fromordinal(n) as <<year, month, day>>
fromordinal(n) ==
  LET y == YearOfOrdinal(n)
      rest == n - DaysBeforeYear(y)
      m == MonthUp(y, 1, rest)
  IN <<y, m, rest - DaysBeforeMonth(y, m)>>

\* datetime.datetime(year, month, day, hour, minute, second)
DT(y, m, d, H, M, S) ==
  [year |-> y, month |-> m, day |-> d, hour |-> H, minute |-> M, second |-> S]

\* now=None: the argument left out
NoneDT == DT(None, None, None, None, None, None)

\* the constructor raises ValueError outside these ranges
ValidDT(y, m, d, H, M, S) ==
  /\ y >= MINYEAR /\ y <= MAXYEAR
  /\ m >= 1 /\ m <= 12
  /\ d >= 1 /\ d <= monthrange(y, m)
  /\ H >= 0 /\ H <= 23
  /\ M >= 0 /\ M <= 59
  /\ S >= 0 /\ S <= 59

\* datetime.weekday(): Monday = 0
weekday(dt) == (toordinal(dt.year, dt.month, dt.day) + 6) % 7

\* second of the day of dt
SecondOfDay(dt) == dt.hour * 3600 + dt.minute * 60 + dt.second

\* the ordinal of the date of dt + timedelta(seconds = secs)
ShiftedOrdinal(dt, secs) ==
  toordinal(dt.year, dt.month, dt.day) + ((SecondOfDay(dt) + secs) \div 86400)

\* dt + timedelta(seconds = secs) is in range (else OverflowError)
InRangeSeconds(dt, secs) ==
  ShiftedOrdinal(dt, secs) >= 1 /\ ShiftedOrdinal(dt, secs) <= MaxOrdinal

\* dt + timedelta(seconds = secs)
AddSeconds(dt, secs) ==
  LET ymd == fromordinal(ShiftedOrdinal(dt, secs))
      r == (SecondOfDay(dt) + secs) % 86400
  IN DT(ymd[1], ymd[2], ymd[3], r \div 3600, (r % 3600) \div 60, r % 60)

\* dt + timedelta(days = n)
AddDays(dt, n) == AddSeconds(dt, n * 86400)
InRangeDays(dt, n) == InRangeSeconds(dt, n * 86400)

\* strftime: a formatted timestamp is the tuple of the numbers it prints;
\* six numbers for a "%Y-%m-%d %H:%M:%S" shape, five for "%Y-%m-%d %H:%M"
FmtDayStart(dt) == <<dt.year, dt.month, dt.day, 0, 0, 0>>
FmtDayEnd(dt) == <<dt.year, dt.month, dt.day, 23, 59, 59>>
FmtSeconds(dt) == <<dt.year, dt.month, dt.day, dt.hour, dt.minute, dt.second>>
FmtMinutes(dt) == <<dt.year, dt.month, dt.day, dt.hour, dt.minute>>

(***************************************************************************)
(* Python str values are sequences of character symbols.                   *)
(*                                                                         *)
(* ZhChars: pinyin names of the CJK characters of the rule tables          *)
(*   nian U+5E74  yue U+6708  ri U+65E5  hao U+53F7  tian U+5929           *)
(*   zhou U+5468  xing U+661F  qi_period U+671F  li U+793C  bai U+62DC     *)
(*   qian U+524D  hou U+540E  nei U+5185  jin_near U+8FD1  ge U+4E2A       *)
(*   shang U+4E0A  xia U+4E0B  ben U+672C  zhe U+8FD9  jin_now U+4ECA      *)
(*   ling_zero U+96F6  yi U+4E00  er U+4E8C  liang U+4E24  san U+4E09      *)
(*   si U+56DB  wu_five U+4E94  liu U+516D  qi_seven U+4E03  ba U+516B     *)
(*   jiu U+4E5D  shi_ten U+5341  dian U+70B9  shi_hour U+65F6  fen U+5206  *)
(*   ban U+534A  zhong_clock U+949F  xiao U+5C0F  ji U+5B63  du U+5EA6     *)
(*   di U+7B2C  fen_part U+4EFD  da U+5927  zuo U+6628  ming U+660E        *)
(*   dang U+5F53  qu U+53BB  lai U+6765  mo U+672B  dao U+5230  zhi U+81F3 *)
(*   ling_dawn U+51CC  chen U+6668  qing U+6E05  zao U+65E9                *)
(*   wu_noon U+5348  zhong_mid U+4E2D  bang U+508D  wan U+665A             *)
(*   wo U+6211 (a character no rule mentions)                              *)
(***************************************************************************)
NoneSeq == <<"None">>

\* class Language
CHINESE == "zh"
ENGLISH == "en"

\* class OffsetType
AGO == "ago"
AFTER == "after"
INNER == "inner"
NEAR == "near"
NONE == "none"
OffsetTypes == {AGO, AFTER, INNER, NEAR, NONE}

\* canonical unit names of TimeSlotCombiner._handle_offset
U_day == <<"d", "a", "y">>
U_week == <<"w", "e", "e", "k">>
U_month == <<"m", "o", "n", "t", "h">>
U_year == <<"y", "e", "a", "r">>
U_hour == <<"h", "o", "u", "r">>
U_minute == <<"m", "i", "n", "u", "t", "e">>
U_quarter == <<"q", "u", "a", "r", "t", "e", "r">>

\* dict.get(key, default) / key in dict, for a dict given as a function
DictGet(dict, key, default) == IF key \in DOMAIN dict THEN dict[key] ELSE default

(***************************************************************************)
(* TimeSlot                                                                *)
(***************************************************************************)
\* TimeSlot(): the dataclass defaults.  confidence is in hundredths (1.0 = 100)
TimeSlot ==
  [year |-> None, month |-> None, day |-> None,
   hour |-> None, minute |-> None, second |-> None,
   weekday |-> None, quarter |-> None, period |-> NoneSeq,
   offset_value |-> None, offset_unit |-> NoneSeq, offset_type |-> NONE,
   is_range_start |-> FALSE, is_range_end |-> FALSE,
   relative_day |-> NoneSeq, week_offset |-> 0, confidence |-> 100]

\* Python truthiness of an Optional[int] / Optional[str]
TruthyInt(v) == v # None /\ v # 0
TruthyStr(v) == v # NoneSeq /\ v # <<>>

has_date(slot) ==
  \/ TruthyInt(slot.year) \/ TruthyInt(slot.month) \/ TruthyInt(slot.day)
  \/ TruthyInt(slot.weekday) \/ TruthyInt(slot.quarter)
  \/ TruthyStr(slot.relative_day)

has_time(slot) ==
  \/ slot.hour # None \/ slot.minute # None \/ slot.second # None
  \/ TruthyStr(slot.period)

has_offset(slot) == slot.offset_type # NONE /\ slot.offset_value # None

\* merge_with written with "other.x or self.x": a zero or empty value of other
\* counts as unset
merge_with_truthy(self, other) ==
  [year |-> IF TruthyInt(other.year) THEN other.year ELSE self.year,
   month |-> IF TruthyInt(other.month) THEN other.month ELSE self.month,
   day |-> IF TruthyInt(other.day) THEN other.day ELSE self.day,
   hour |-> IF TruthyInt(other.hour) THEN other.hour ELSE self.hour,
   minute |-> IF TruthyInt(other.minute) THEN other.minute ELSE self.minute,
   second |-> IF TruthyInt(other.second) THEN other.second ELSE self.second,
   weekday |-> IF TruthyInt(other.weekday) THEN other.weekday ELSE self.weekday,
   quarter |-> IF TruthyInt(other.quarter) THEN other.quarter ELSE self.quarter,
   period |-> IF TruthyStr(other.period) THEN other.period ELSE self.period,
   offset_value |->
     IF TruthyInt(other.offset_value) THEN other.offset_value ELSE self.offset_value,
   offset_unit |->
     IF TruthyStr(other.offset_unit) THEN other.offset_unit ELSE self.offset_unit,
   offset_type |->
     IF other.offset_type # NONE THEN other.offset_type ELSE self.offset_type,
   is_range_start |-> other.is_range_start \/ self.is_range_start,
   is_range_end |-> other.is_range_end \/ self.is_range_end,
   relative_day |->
     IF TruthyStr(other.relative_day) THEN other.relative_day ELSE self.relative_day,
   week_offset |-> IF other.week_offset # 0 THEN other.week_offset ELSE self.week_offset,
   confidence |-> Min2(self.confidence, other.confidence)]

\* self.merge_with(other): a new slot; self and other are left as they are
merge_with(self, other) ==
  [year |-> IF other.year # None THEN other.year ELSE self.year,
   month |-> IF other.month # None THEN other.month ELSE self.month,
   day |-> IF other.day # None THEN other.day ELSE self.day,
   hour |-> IF other.hour # None THEN other.hour ELSE self.hour,
   minute |-> IF other.minute # None THEN other.minute ELSE self.minute,
   second |-> IF other.second # None THEN other.second ELSE self.second,
   weekday |-> IF other.weekday # None THEN other.weekday ELSE self.weekday,
   quarter |-> IF other.quarter # None THEN other.quarter ELSE self.quarter,
   period |-> IF other.period # NoneSeq THEN other.period ELSE self.period,
   offset_value |->
     IF other.offset_value # None THEN other.offset_value ELSE self.offset_value,
   offset_unit |->
     IF other.offset_unit # NoneSeq THEN other.offset_unit ELSE self.offset_unit,
   offset_type |->
     IF other.offset_type # NONE THEN other.offset_type ELSE self.offset_type,
   is_range_start |-> other.is_range_start \/ self.is_range_start,
   is_range_end |-> other.is_range_end \/ self.is_range_end,
   relative_day |->
     IF other.relative_day # NoneSeq THEN other.relative_day ELSE self.relative_day,
   week_offset |-> IF other.week_offset # 0 THEN other.week_offset ELSE self.week_offset,
   confidence |-> Min2(self.confidence, other.confidence)]

(***************************************************************************)
(* Lookup tables of the parsers that the combiner reads                    *)
(***************************************************************************)
\* ChineseSlotParser.TIME_PERIOD_MAP: period -> <<start hour, end hour, end minute>>
ZhTimePeriodMap ==
  (<<"ling_dawn", "chen">> :> <<0, 4, 59>>) @@
  (<<"qing", "chen">> :> <<5, 6, 59>>) @@
  (<<"zao", "shang">> :> <<7, 8, 59>>) @@
  (<<"shang", "wu_noon">> :> <<9, 11, 59>>) @@
  (<<"zhong_mid", "wu_noon">> :> <<12, 13, 59>>) @@
  (<<"xia", "wu_noon">> :> <<14, 17, 59>>) @@
  (<<"bang", "wan">> :> <<18, 18, 59>>) @@
  (<<"wan", "shang">> :> <<19, 23, 59>>)

\* EnglishSlotParser.TIME_PERIOD_MAP
EnTimePeriodMap ==
  (<<"d", "a", "w", "n">> :> <<0, 4, 59>>) @@
  (<<"e", "a", "r", "l", "y", " ", "m", "o", "r", "n", "i", "n", "g">> :> <<5, 6, 59>>) @@
  (<<"m", "o", "r", "n", "i", "n", "g">> :> <<7, 11, 59>>) @@
  (<<"n", "o", "o", "n">> :> <<12, 13, 59>>) @@
  (<<"a", "f", "t", "e", "r", "n", "o", "o", "n">> :> <<14, 17, 59>>) @@
  (<<"e", "v", "e", "n", "i", "n", "g">> :> <<18, 20, 59>>) @@
  (<<"n", "i", "g", "h", "t">> :> <<21, 23, 59>>)

\* self.parser.TIME_PERIOD_MAP of a combiner built for lang
TIME_PERIOD_MAP(lang) == IF lang = CHINESE THEN ZhTimePeriodMap ELSE EnTimePeriodMap

\* only the afternoon shifts an hour below 12; evening and night are left out
PmPeriods_AfternoonOnly ==
  {<<"xia", "wu_noon">>, <<"a", "f", "t", "e", "r", "n", "o", "o", "n">>}

\* the period names that shift an hour below 12 into the afternoon
PmPeriods ==
  {<<"xia", "wu_noon">>, <<"bang", "wan">>, <<"wan", "shang">>,
   <<"a", "f", "t", "e", "r", "n", "o", "o", "n">>,
   <<"e", "v", "e", "n", "i", "n", "g">>, <<"n", "i", "g", "h", "t">>}
NoonPeriods == {<<"zhong_mid", "wu_noon">>, <<"n", "o", "o", "n">>}

(***************************************************************************)
(* TimeSlotCombiner.  now is drawn from years where no timedelta addition  *)
(* of the combiner leaves datetime's range, so the only exceptions are     *)
(* the constructor's ValueError and a dict's KeyError.                     *)
(***************************************************************************)
MIN_YEAR == 1900
MAX_YEAR == 2100

ClampYear(year) == Max2(MIN_YEAR, Min2(MAX_YEAR, year))

\* value = max(1, min(100, value))
\* the clamp with its upper limit left out
ClampValue_NoUpper(value) == Max2(1, value)

ClampValue(value) == Max2(1, Min2(100, value))

_get_day_range(dt) == Ok(<<FmtDayStart(dt), FmtDayEnd(dt)>>)

_get_year_range(year) ==
  LET y == ClampYear(year)
  IN Ok(<<(<<y, 1, 1, 0, 0, 0>>), (<<y, 12, 31, 23, 59, 59>>)>>)

_get_month_range(year, month) ==
  IF ~ValidDT(year, month, 1, 0, 0, 0) THEN Raise("ValueError")
  ELSE Ok(<<FmtDayStart(DT(year, month, 1, 0, 0, 0)),
            FmtDayEnd(DT(year, month, monthrange(year, month), 0, 0, 0))>>)

quarter_months == (1 :> <<1, 3>>) @@ (2 :> <<4, 6>>) @@ (3 :> <<7, 9>>) @@ (4 :> <<10, 12>>)

_get_quarter_range(year, quarter) ==
  IF quarter \notin DOMAIN quarter_months THEN Raise("KeyError")
  ELSE LET start_month == quarter_months[quarter][1]
           end_month == quarter_months[quarter][2]
       IN IF ~ValidDT(year, start_month, 1, 0, 0, 0) THEN Raise("ValueError")
          ELSE Ok(<<FmtDayStart(DT(year, start_month, 1, 0, 0, 0)),
                    FmtDayEnd(DT(year, end_month, monthrange(year, end_month), 0, 0, 0))>>)

_get_current_quarter(now) ==
  IF now.month <= 3 THEN 1
  ELSE IF now.month <= 6 THEN 2
  ELSE IF now.month <= 9 THEN 3
  ELSE 4

\* the two while loops of _add_months, as <<year, month>>
RECURSIVE NormalizeMonth(_, _)
NormalizeMonth(year, month) ==
  IF month > 12 THEN NormalizeMonth(year + 1, month - 12)
  ELSE IF month < 1 THEN NormalizeMonth(year - 1, month + 12)
  ELSE <<year, month>>

\* a month counted as thirty days
_add_months_thirty_days(dt, n) == AddDays(dt, 30 * n)

_add_months(dt, n) ==
  LET ym == NormalizeMonth(dt.year, dt.month + n)
      year == ClampYear(ym[1])
      month == ym[2]
      day == Min2(dt.day, monthrange(year, month))
  IN DT(year, month, day, dt.hour, dt.minute, dt.second)

\* weeks taken to start on Sunday
ThisMonday_SundayFirst(now) == AddDays(now, -((weekday(now) + 1) % 7))

\* the Monday of now's week: now - timedelta(days=now.weekday())
ThisMonday(now) == AddDays(now, -weekday(now))

\* the next day with that weekday from now on, then whole weeks added
_get_weekday_date_next_occurrence(now, wd, week_offset) ==
  AddDays(now, ((wd - weekday(now)) % 7) + 7 * week_offset)

_get_weekday_date(now, wd, week_offset) ==
  AddDays(AddDays(ThisMonday(now), 7 * week_offset), wd)

\* [first.strftime('%Y-%m-%d 00:00:00'), last.strftime('%Y-%m-%d 23:59:59')]
RangeOf(first, last) == Ok(<<FmtDayStart(first), FmtDayEnd(last)>>)

\* the first and last day of the month of target
MonthRangeOf(target) ==
  RangeOf(DT(target.year, target.month, 1, 0, 0, 0),
          DT(target.year, target.month, monthrange(target.year, target.month), 0, 0, 0))

_calculate_ago(now, value0, unit) ==
  LET value == ClampValue(value0)
  IN IF unit = U_day THEN _get_day_range(AddDays(now, -value))
     ELSE IF unit = U_week THEN
       LET target_monday == AddDays(ThisMonday(now), -7 * value)
       IN RangeOf(target_monday, AddDays(target_monday, 6))
     ELSE IF unit = U_month THEN MonthRangeOf(_add_months(now, -value))
     ELSE IF unit = U_year THEN _get_year_range(now.year - value)
     ELSE IF unit = U_hour THEN Ok(<<FmtSeconds(AddSeconds(now, -3600 * value))>>)
     ELSE IF unit = U_minute THEN Ok(<<FmtSeconds(AddSeconds(now, -60 * value))>>)
     ELSE Ok(<<>>)

_calculate_after(now, value0, unit) ==
  LET value == ClampValue(value0)
  IN IF unit = U_day THEN _get_day_range(AddDays(now, value))
     ELSE IF unit = U_week THEN
       LET target_monday == AddDays(ThisMonday(now), 7 * value)
       IN RangeOf(target_monday, AddDays(target_monday, 6))
     ELSE IF unit = U_month THEN MonthRangeOf(_add_months(now, value))
     ELSE IF unit = U_year THEN _get_year_range(now.year + value)
     ELSE IF unit = U_hour THEN Ok(<<FmtSeconds(AddSeconds(now, 3600 * value))>>)
     ELSE IF unit = U_minute THEN Ok(<<FmtSeconds(AddSeconds(now, 60 * value))>>)
     ELSE Ok(<<>>)

_calculate_inner(now, value0, unit) ==
  LET value == ClampValue(value0)
  IN IF unit = U_day THEN RangeOf(now, AddDays(now, value - 1))
     ELSE IF unit = U_week THEN
       RangeOf(ThisMonday(now), AddDays(ThisMonday(now), 7 * value - 1))
     ELSE IF unit = U_month THEN
       LET end_dt == _add_months(now, value - 1)
       IN RangeOf(DT(now.year, now.month, 1, 0, 0, 0),
                  DT(end_dt.year, end_dt.month,
                     monthrange(end_dt.year, end_dt.month), 0, 0, 0))
     ELSE IF unit = U_year THEN
       IF ~ValidDT(now.year + value - 1, 12, 31, 0, 0, 0) THEN Raise("ValueError")
       ELSE RangeOf(DT(now.year, 1, 1, 0, 0, 0), DT(now.year + value - 1, 12, 31, 0, 0, 0))
     ELSE Ok(<<>>)

_calculate_near(now, value0, unit) ==
  LET value == ClampValue(value0)
  IN IF unit = U_day THEN RangeOf(AddDays(now, -(value - 1)), now)
     ELSE IF unit = U_week THEN
       LET start_monday == AddDays(now, -(weekday(now) + (value - 1) * 7))
       IN RangeOf(start_monday, AddDays(start_monday, 7 * value - 1))
     ELSE IF unit = U_month THEN
       LET start_dt == _add_months(now, -(value - 1))
       IN RangeOf(DT(start_dt.year, start_dt.month, 1, 0, 0, 0),
                  DT(now.year, now.month, monthrange(now.year, now.month), 0, 0, 0))
     ELSE IF unit = U_year THEN
       IF ~ValidDT(now.year - value + 1, 1, 1, 0, 0, 0) THEN Raise("ValueError")
       ELSE RangeOf(DT(now.year - value + 1, 1, 1, 0, 0, 0), DT(now.year, 12, 31, 0, 0, 0))
     ELSE Ok(<<>>)

\* the neighbouring quarter taken within now's year at both ends
_handle_quarter_offset_same_year(slot, now) ==
  LET current_q == _get_current_quarter(now)
  IN IF slot.offset_type = AGO THEN
       (IF current_q = 1 THEN _get_quarter_range(now.year, 4)
        ELSE _get_quarter_range(now.year, current_q - 1))
     ELSE IF slot.offset_type = AFTER THEN
       (IF current_q = 4 THEN _get_quarter_range(now.year, 1)
        ELSE _get_quarter_range(now.year, current_q + 1))
     ELSE _get_quarter_range(now.year, current_q)

_handle_quarter_offset(slot, now) ==
  LET current_q == _get_current_quarter(now)
  IN IF slot.offset_type = AGO THEN
       (IF current_q = 1 THEN _get_quarter_range(now.year - 1, 4)
        ELSE _get_quarter_range(now.year, current_q - 1))
     ELSE IF slot.offset_type = AFTER THEN
       (IF current_q = 4 THEN _get_quarter_range(now.year + 1, 1)
        ELSE _get_quarter_range(now.year, current_q + 1))
     ELSE _get_quarter_range(now.year, current_q)

unit_map_zh ==
  (<<"tian">> :> U_day) @@ (<<"zhou">> :> U_week) @@ (<<"yue">> :> U_month) @@
  (<<"nian">> :> U_year) @@ (<<"xiao", "shi_hour">> :> U_hour) @@
  (<<"fen", "zhong_clock">> :> U_minute) @@ (<<"ji", "du">> :> U_quarter)

unit_map_en ==
  (U_day :> U_day) @@ (U_week :> U_week) @@ (U_month :> U_month) @@
  (U_year :> U_year) @@ (U_hour :> U_hour) @@ (U_minute :> U_minute)

_handle_offset(lang, slot, now) ==
  LET unit_map == IF lang = CHINESE THEN unit_map_zh ELSE unit_map_en
      std_unit == DictGet(unit_map, slot.offset_unit, slot.offset_unit)
  IN IF std_unit = U_quarter THEN _handle_quarter_offset(slot, now)
     ELSE IF slot.offset_type = AGO THEN _calculate_ago(now, slot.offset_value, std_unit)
     ELSE IF slot.offset_type = AFTER THEN _calculate_after(now, slot.offset_value, std_unit)
     ELSE IF slot.offset_type = INNER THEN _calculate_inner(now, slot.offset_value, std_unit)
     ELSE IF slot.offset_type = NEAR THEN _calculate_near(now, slot.offset_value, std_unit)
     ELSE Ok(<<>>)

\* the period range with its start printed to the second as well
_handle_period_time_start_seconds(lang, slot, base_date) ==
  LET period_map == TIME_PERIOD_MAP(lang)
      period == slot.period
  IN IF period \notin DOMAIN period_map THEN _get_day_range(base_date)
     ELSE IF slot.hour # None THEN
       LET minute == IF TruthyInt(slot.minute) THEN slot.minute ELSE 0
           hour == IF period \in PmPeriods /\ slot.hour < 12 THEN slot.hour + 12
                   ELSE IF period \in NoonPeriods /\ slot.hour = 0 THEN 12
                   ELSE slot.hour
       IN IF ~ValidDT(base_date.year, base_date.month, base_date.day, hour, minute, 0)
          THEN Raise("ValueError")
          ELSE Ok(<<FmtSeconds(DT(base_date.year, base_date.month, base_date.day,
                                  hour, minute, 0))>>)
     ELSE
       LET p == period_map[period]
       IN Ok(<<FmtSeconds(DT(base_date.year, base_date.month, base_date.day, p[1], 0, 0)),
               FmtSeconds(DT(base_date.year, base_date.month, base_date.day,
                             p[2], p[3], 59))>>)

_handle_period_time(lang, slot, base_date) ==
  LET period_map == TIME_PERIOD_MAP(lang)
      period == slot.period
  IN IF period \notin DOMAIN period_map THEN _get_day_range(base_date)
     ELSE IF slot.hour # None THEN
       LET minute == IF TruthyInt(slot.minute) THEN slot.minute ELSE 0
           hour == IF period \in PmPeriods /\ slot.hour < 12 THEN slot.hour + 12
                   ELSE IF period \in NoonPeriods /\ slot.hour = 0 THEN 12
                   ELSE slot.hour
       IN IF ~ValidDT(base_date.year, base_date.month, base_date.day, hour, minute, 0)
          THEN Raise("ValueError")
          ELSE Ok(<<FmtSeconds(DT(base_date.year, base_date.month, base_date.day,
                                  hour, minute, 0))>>)
     ELSE
       LET p == period_map[period]
       IN Ok(<<FmtMinutes(DT(base_date.year, base_date.month, base_date.day, p[1], 0, 0)),
               FmtSeconds(DT(base_date.year, base_date.month, base_date.day,
                             p[2], p[3], 59))>>)

_build_time_point(slot, base_date) ==
  LET hour0 == IF slot.hour # None THEN slot.hour ELSE 0
      minute == IF slot.minute # None THEN slot.minute ELSE 0
      second == IF slot.second # None THEN slot.second ELSE 0
      hour == IF TruthyStr(slot.period) /\ slot.period \in PmPeriods /\ hour0 < 12
              THEN hour0 + 12 ELSE hour0
  IN IF ~ValidDT(base_date.year, base_date.month, base_date.day, hour, minute, second)
     THEN Raise("ValueError")
     ELSE Ok(<<FmtSeconds(DT(base_date.year, base_date.month, base_date.day,
                             hour, minute, second))>>)

day_offset_zh ==
  (<<"da", "qian", "tian">> :> -3) @@ (<<"qian", "tian">> :> -2) @@
  (<<"zuo", "tian">> :> -1) @@ (<<"zuo", "ri">> :> -1) @@
  (<<"jin_now", "tian">> :> 0) @@ (<<"jin_now", "ri">> :> 0) @@
  (<<"dang", "tian">> :> 0) @@
  (<<"ming", "tian">> :> 1) @@ (<<"ming", "ri">> :> 1) @@
  (<<"hou", "tian">> :> 2) @@ (<<"da", "hou", "tian">> :> 3)

W_yesterday == <<"y", "e", "s", "t", "e", "r", "d", "a", "y">>
W_today == <<"t", "o", "d", "a", "y">>
W_tomorrow == <<"t", "o", "m", "o", "r", "r", "o", "w">>
W_day_before_yesterday == <<"d", "a", "y", " ", "b", "e", "f", "o", "r", "e", " ">> \o W_yesterday
W_day_after_tomorrow == <<"d", "a", "y", " ", "a", "f", "t", "e", "r", " ">> \o W_tomorrow
W_this_year == <<"t", "h", "i", "s", " ", "y", "e", "a", "r">>
W_this_month == <<"t", "h", "i", "s", " ", "m", "o", "n", "t", "h">>

day_offset_en ==
  (W_day_before_yesterday :> -2) @@ (W_yesterday :> -1) @@ (W_today :> 0) @@
  (W_tomorrow :> 1) @@ (W_day_after_tomorrow :> 2)

year_offset_zh ==
  {<<"jin_now", "nian">>, <<"ben", "nian">>, <<"ben", "nian", "du">>, <<"ben", "ji">>}
year_offset_en == {W_this_year}
month_offset_zh == {<<"ben", "yue">>, <<"zhe", "ge", "yue">>}
month_offset_en == {W_this_month}

\* the day offset applied to the day of the month, kept within now's month
_handle_relative_day_within_month(lang, slot, now) ==
  LET relative == slot.relative_day
      day_offset == IF lang = CHINESE THEN day_offset_zh ELSE day_offset_en
      year_offset == IF lang = CHINESE THEN year_offset_zh ELSE year_offset_en
      month_offset == IF lang = CHINESE THEN month_offset_zh ELSE month_offset_en
  IN IF relative \in DOMAIN day_offset THEN
       LET day == Max2(1, Min2(monthrange(now.year, now.month),
                               now.day + day_offset[relative]))
           target == DT(now.year, now.month, day, now.hour, now.minute, now.second)
       IN IF TruthyStr(slot.period) THEN _handle_period_time(lang, slot, target)
          ELSE IF slot.hour # None THEN _build_time_point(slot, target)
          ELSE _get_day_range(target)
     ELSE IF relative \in year_offset THEN _get_year_range(now.year)
     ELSE IF relative \in month_offset THEN _get_month_range(now.year, now.month)
     ELSE Ok(<<>>)

_handle_relative_day(lang, slot, now) ==
  LET relative == slot.relative_day
      day_offset == IF lang = CHINESE THEN day_offset_zh ELSE day_offset_en
      year_offset == IF lang = CHINESE THEN year_offset_zh ELSE year_offset_en
      month_offset == IF lang = CHINESE THEN month_offset_zh ELSE month_offset_en
  IN IF relative \in DOMAIN day_offset THEN
       LET target == AddDays(now, day_offset[relative])
       IN IF TruthyStr(slot.period) THEN _handle_period_time(lang, slot, target)
          ELSE IF slot.hour # None THEN _build_time_point(slot, target)
          ELSE _get_day_range(target)
     ELSE IF relative \in year_offset THEN _get_year_range(now.year)
     ELSE IF relative \in month_offset THEN _get_month_range(now.year, now.month)
     ELSE Ok(<<>>)

_handle_quarter(slot, now) ==
  LET year == IF TruthyInt(slot.year) THEN slot.year ELSE now.year
      quarter == IF slot.quarter = 0 THEN _get_current_quarter(now) ELSE slot.quarter
  IN _get_quarter_range(year, quarter)

\* the weekend test left out: a Saturday with the range-start flag is a weekday
_handle_weekday_no_weekend(slot, now) ==
  IF slot.weekday = None THEN
    LET target_monday == AddDays(ThisMonday(now), 7 * slot.week_offset)
    IN RangeOf(target_monday, AddDays(target_monday, 6))
  ELSE _get_day_range(_get_weekday_date(now, slot.weekday, slot.week_offset))

_handle_weekday(slot, now) ==
  IF slot.is_range_start /\ slot.weekday = 5 THEN
    LET sat == AddDays(_get_weekday_date(now, 5, 0), 7 * slot.week_offset)
    IN RangeOf(sat, AddDays(sat, 1))
  ELSE IF slot.weekday = None THEN
    LET target_monday == AddDays(ThisMonday(now), 7 * slot.week_offset)
    IN RangeOf(target_monday, AddDays(target_monday, 6))
  ELSE _get_day_range(_get_weekday_date(now, slot.weekday, slot.week_offset))

\* the same with the date taken whole from now
_handle_specific_datetime_today(lang, slot, now) ==
  LET target == DT(now.year, now.month, now.day, 0, 0, 0)
  IN IF TruthyStr(slot.period) THEN _handle_period_time(lang, slot, target)
     ELSE IF slot.hour # None THEN _build_time_point(slot, target)
     ELSE IF TruthyInt(slot.year) \/ TruthyInt(slot.month) \/ TruthyInt(slot.day) THEN
       _get_day_range(target)
     ELSE Ok(<<>>)

_handle_specific_datetime(lang, slot, now) ==
  LET year == IF TruthyInt(slot.year) THEN slot.year ELSE now.year
      month == IF TruthyInt(slot.month) THEN slot.month ELSE now.month
      day == IF TruthyInt(slot.day) THEN slot.day ELSE now.day
      valid == ValidDT(year, month, day, 0, 0, 0)
      target == DT(year, month, day, 0, 0, 0)
  IN IF TruthyStr(slot.period) THEN
       (IF ~valid THEN Raise("ValueError") ELSE _handle_period_time(lang, slot, target))
     ELSE IF slot.hour # None THEN
       (IF ~valid THEN Raise("ValueError") ELSE _build_time_point(slot, target))
     ELSE IF TruthyInt(slot.year) \/ TruthyInt(slot.month) \/ TruthyInt(slot.day) THEN
       (IF ~valid THEN Raise("ValueError") ELSE _get_day_range(target))
     ELSE Ok(<<>>)

\* the cascade with the quarter test moved ahead of the relative-day test
_calculate_time_range_quarter_first(lang, slot, now) ==
  IF has_offset(slot) THEN _handle_offset(lang, slot, now)
  ELSE IF slot.quarter # None THEN _handle_quarter(slot, now)
  ELSE IF TruthyStr(slot.relative_day) THEN _handle_relative_day(lang, slot, now)
  ELSE IF slot.weekday # None \/ slot.week_offset # 0 \/ slot.is_range_start
    THEN _handle_weekday(slot, now)
  ELSE _handle_specific_datetime(lang, slot, now)

\* the decision cascade: the first branch whose test holds
_calculate_time_range(lang, slot, now) ==
  IF has_offset(slot) THEN _handle_offset(lang, slot, now)
  ELSE IF TruthyStr(slot.relative_day) THEN _handle_relative_day(lang, slot, now)
  ELSE IF slot.quarter # None THEN _handle_quarter(slot, now)
  ELSE IF slot.weekday # None \/ slot.week_offset # 0 \/ slot.is_range_start
    THEN _handle_weekday(slot, now)
  ELSE _handle_specific_datetime(lang, slot, now)

\* merged_slot = TimeSlot(); for slot in slots: merged_slot = merged_slot.merge_with(slot)
RECURSIVE MergeAll(_, _)
MergeAll(acc, slots) ==
  IF slots = <<>> THEN acc ELSE MergeAll(merge_with(acc, Head(slots)), Tail(slots))

combine(lang, slots, now) ==
  IF slots = <<>> THEN Ok(<<>>)
  ELSE _calculate_time_range(lang, MergeAll(TimeSlot, slots), now)

(***************************************************************************)
(* list.sort / sorted: stable, ascending by key                            *)
(***************************************************************************)
\* insert <<key, item>> behind every pair whose key is not larger
RECURSIVE InsertByKey(_, _)
InsertByKey(pairs, p) ==
  IF pairs = <<>> THEN <<p>>
  ELSE IF Head(pairs)[1] <= p[1] THEN <<Head(pairs)>> \o InsertByKey(Tail(pairs), p)
  ELSE <<p>> \o pairs

RECURSIVE StableSortPairs(_, _)
StableSortPairs(done, todo) ==
  IF todo = <<>> THEN done
  ELSE StableSortPairs(InsertByKey(done, Head(todo)), Tail(todo))

\* results.sort(key=lambda x: x.start_pos)
SortByStart(results) ==
  LET pairs == [i \in 1..Len(results) |-> <<results[i].start_pos, results[i]>>]
      sorted == StableSortPairs(<<>>, pairs)
  IN [i \in 1..Len(sorted) |-> sorted[i][2]]

\* the same sort with matches of equal length in reverse input order
SortByLengthDesc_TiesReversed(results) ==
  LET n == Len(results)
      pairs == [i \in 1..n |->
                  <<-(results[n + 1 - i].end_pos - results[n + 1 - i].start_pos),
                    results[n + 1 - i]>>]
      sorted == StableSortPairs(<<>>, pairs)
  IN [i \in 1..Len(sorted) |-> sorted[i][2]]

\* sorted(results, key=lambda x: -(x.end_pos - x.start_pos))
SortByLengthDesc(results) ==
  LET pairs == [i \in 1..Len(results) |->
                  <<-(results[i].end_pos - results[i].start_pos), results[i]>>]
      sorted == StableSortPairs(<<>>, pairs)
  IN [i \in 1..Len(sorted) |-> sorted[i][2]]

(***************************************************************************)
(* TimeRangeExtractor._remove_overlapping_matches                          *)
(***************************************************************************)
\* containment tested with strict comparisons
IsContained_Strict(result, kept) ==
  \E k \in 1..Len(kept) :
    result.start_pos > kept[k].start_pos /\ result.end_pos < kept[k].end_pos

\* result lies inside some kept result
IsContained(result, kept) ==
  \E k \in 1..Len(kept) :
    result.start_pos >= kept[k].start_pos /\ result.end_pos <= kept[k].end_pos

\* the selection loop over sorted_results
RECURSIVE KeepLoop(_, _)
KeepLoop(kept, sorted_results) ==
  IF sorted_results = <<>> THEN kept
  ELSE KeepLoop(IF IsContained(Head(sorted_results), kept) THEN kept
                ELSE Append(kept, Head(sorted_results)),
                Tail(sorted_results))

\* the resolver without its closing sort by start_pos
_remove_overlapping_matches_unsorted(results) ==
  IF Len(results) <= 1 THEN results
  ELSE KeepLoop(<<>>, SortByLengthDesc(results))

_remove_overlapping_matches(results) ==
  IF Len(results) <= 1 THEN results
  ELSE SortByStart(KeepLoop(<<>>, SortByLengthDesc(results)))

(***************************************************************************)
(* The regular expressions of the rule tables, as syntax trees, and the    *)
(* backtracking matcher of re: Match gives every way a pattern matches at  *)
(* a position, in the order re tries them, so the first is re's match.     *)
(***************************************************************************)
Lit(s) == [op |-> "lit", s |-> s]
Set(cs) == [op |-> "set", cs |-> cs]
Cat(rs) == [op |-> "cat", rs |-> rs]
Alt(rs) == [op |-> "alt", rs |-> rs]
\* greedy r{min,max}; max = -1 is unbounded
Rep(r, min, max) == [op |-> "rep", r |-> r, min |-> min, max |-> max]
Opt(r) == Rep(r, 0, 1)
\* the n-th capturing group
Grp(n, r) == [op |-> "grp", n |-> n, r |-> r]
\* (?!r) and (?=r)
Neg(r) == [op |-> "neg", r |-> r]
Pos(r) == [op |-> "pos", r |-> r]
\* $
EndOfText == [op |-> "end"]
\* a|b|c over literal strings
AltLits(ss) == Alt([i \in 1..Len(ss) |-> Lit(ss[i])])

Digits == {"0", "1", "2", "3", "4", "5", "6", "7", "8", "9"}
\* \d and \s
Digit == Set(Digits)
Space == Set({" "})

\* str.lower(), character by character
UpperToLower ==
  ("A" :> "a") @@
  ("B" :> "b") @@
  ("C" :> "c") @@
  ("D" :> "d") @@
  ("E" :> "e") @@
  ("F" :> "f") @@
  ("G" :> "g") @@
  ("H" :> "h") @@
  ("I" :> "i") @@
  ("J" :> "j") @@
  ("K" :> "k") @@
  ("L" :> "l") @@
  ("M" :> "m") @@
  ("N" :> "n") @@
  ("O" :> "o") @@
  ("P" :> "p") @@
  ("Q" :> "q") @@
  ("R" :> "r") @@
  ("S" :> "s") @@
  ("T" :> "t") @@
  ("U" :> "u") @@
  ("V" :> "v") @@
  ("W" :> "w") @@
  ("X" :> "x") @@
  ("Y" :> "y") @@
  ("Z" :> "z")
LowerChar(c) == IF c \in DOMAIN UpperToLower THEN UpperToLower[c] ELSE c
lower(str) == [i \in 1..Len(str) |-> LowerChar(str[i])]

\* one character equals another, under re.IGNORECASE when ic
SameChar(a, b, ic) == IF ic THEN LowerChar(a) = LowerChar(b) ELSE a = b

\* a matcher state: the position reached (characters consumed from the
\* start of the text) and the spans of the groups set so far
NoGroups == [n \in 1..8 |-> <<>>]

RECURSIVE Match(_, _, _, _)
RECURSIVE MatchCat(_, _, _, _)
RECURSIVE MatchEach(_, _, _, _)
RECURSIVE MatchRep(_, _, _, _, _)
RECURSIVE MatchRepEach(_, _, _, _, _, _)

\* every match of r at state st, in re's order of preference
Match(r, text, st, ic) ==
  CASE r.op = "lit" ->
         IF /\ st.pos + Len(r.s) <= Len(text)
            /\ \A k \in 1..Len(r.s) : SameChar(text[st.pos + k], r.s[k], ic)
         THEN <<[st EXCEPT !.pos = st.pos + Len(r.s)]>> ELSE <<>>
    [] r.op = "set" ->
         IF /\ st.pos < Len(text)
            /\ \E c \in r.cs : SameChar(text[st.pos + 1], c, ic)
         THEN <<[st EXCEPT !.pos = st.pos + 1]>> ELSE <<>>
    [] r.op = "cat" -> MatchCat(r.rs, text, <<st>>, ic)
    [] r.op = "alt" ->
         IF r.rs = <<>> THEN <<>>
         ELSE Match(Head(r.rs), text, st, ic) \o Match(Alt(Tail(r.rs)), text, st, ic)
    [] r.op = "rep" -> MatchRep(r, text, st, 0, ic)
    [] r.op = "grp" ->
         LET inner == Match(r.r, text, st, ic)
         IN [i \in 1..Len(inner) |->
               [inner[i] EXCEPT !.groups[r.n] = <<st.pos, inner[i].pos>>]]
    [] r.op = "neg" -> IF Match(r.r, text, st, ic) = <<>> THEN <<st>> ELSE <<>>
    [] r.op = "pos" -> IF Match(r.r, text, st, ic) # <<>> THEN <<st>> ELSE <<>>
    [] r.op = "end" -> IF st.pos = Len(text) THEN <<st>> ELSE <<>>

\* the patterns rs one after the other, from each of the states sts
MatchCat(rs, text, sts, ic) ==
  IF rs = <<>> THEN sts
  ELSE MatchCat(Tail(rs), text, MatchEach(Head(rs), text, sts, ic), ic)

MatchEach(r, text, sts, ic) ==
  IF sts = <<>> THEN <<>>
  ELSE Match(r, text, Head(sts), ic) \o MatchEach(r, text, Tail(sts), ic)

\* greedy repetition after k rounds: one more round first, then stopping here
MatchRep(r, text, st, k, ic) ==
  (IF r.max = -1 \/ k < r.max
   THEN MatchRepEach(r, text, st, Match(r.r, text, st, ic), k, ic) ELSE <<>>)
  \o (IF k >= r.min THEN <<st>> ELSE <<>>)

MatchRepEach(r, text, st, nexts, k, ic) ==
  IF nexts = <<>> THEN <<>>
  ELSE (IF Head(nexts).pos > st.pos THEN MatchRep(r, text, Head(nexts), k + 1, ic)
        ELSE IF k + 1 >= r.min THEN <<Head(nexts)>> ELSE <<>>)
       \o MatchRepEach(r, text, st, Tail(nexts), k, ic)

\* text[s:e]
Slice(text, s, e) == [i \in 1..(e - s) |-> text[s + i]]

\* match.groups(): the text of each group, None for a group that took no part
GroupsOf(text, st) ==
  [n \in 1..8 |-> IF st.groups[n] = <<>> THEN NoneSeq
                  ELSE Slice(text, st.groups[n][1], st.groups[n][2])]

\* re.finditer(pattern, text): scan from pos, the matches left to right
RECURSIVE finditer(_, _, _, _)
finditer(re, text, pos, ic) ==
  IF pos > Len(text) THEN <<>>
  ELSE LET ms == Match(re, text, [pos |-> pos, groups |-> NoGroups], ic)
       IN IF ms = <<>> THEN finditer(re, text, pos + 1, ic)
          ELSE <<[start |-> pos, end |-> ms[1].pos, groups |-> GroupsOf(text, ms[1])]>>
               \o finditer(re, text, IF ms[1].pos > pos THEN ms[1].pos ELSE pos + 1, ic)

(***************************************************************************)
(* ChineseSlotParser: lookup tables and the rule table                     *)
(***************************************************************************)
\* class SlotType
ST_YEAR == "year"
ST_MONTH == "month"
ST_DAY == "day"
ST_HOUR == "hour"
ST_WEEKDAY == "weekday"
ST_QUARTER == "quarter"
ST_PERIOD == "period"
ST_RELATIVE == "relative"

ZhWeekdayMap ==
  (<<"yi">> :> 0) @@ (<<"er">> :> 1) @@ (<<"san">> :> 2) @@ (<<"si">> :> 3) @@
  (<<"wu_five">> :> 4) @@ (<<"liu">> :> 5) @@ (<<"ri">> :> 6) @@ (<<"tian">> :> 6)

\* ChineseSlotParser.QUARTER_MAP, the quarter number of each key
ZhQuarterMap ==
  (<<"1">> :> 1) @@ (<<"yi">> :> 1) @@ (<<"di", "yi">> :> 1) @@
  (<<"2">> :> 2) @@ (<<"er">> :> 2) @@ (<<"di", "er">> :> 2) @@
  (<<"3">> :> 3) @@ (<<"san">> :> 3) @@ (<<"di", "san">> :> 3) @@
  (<<"4">> :> 4) @@ (<<"si">> :> 4) @@ (<<"di", "si">> :> 4) @@
  (<<"q", "1">> :> 1) @@ (<<"q", "2">> :> 2) @@ (<<"q", "3">> :> 3) @@ (<<"q", "4">> :> 4) @@
  (<<"Q", "1">> :> 1) @@ (<<"Q", "2">> :> 2) @@ (<<"Q", "3">> :> 3) @@ (<<"Q", "4">> :> 4)

ZhNumMap ==
  (<<"ling_zero">> :> 0) @@ (<<"yi">> :> 1) @@ (<<"er">> :> 2) @@ (<<"liang">> :> 2) @@
  (<<"san">> :> 3) @@ (<<"si">> :> 4) @@ (<<"wu_five">> :> 5) @@ (<<"liu">> :> 6) @@
  (<<"qi_seven">> :> 7) @@ (<<"ba">> :> 8) @@ (<<"jiu">> :> 9) @@ (<<"shi_ten">> :> 10) @@
  (<<"shi_ten", "yi">> :> 11) @@ (<<"shi_ten", "er">> :> 12)

ZhRelativeYearMap ==
  (<<"qian", "nian">> :> -2) @@ (<<"qu", "nian">> :> -1) @@ (<<"jin_now", "nian">> :> 0) @@
  (<<"ben", "nian">> :> 0) @@ (<<"ben", "nian", "du">> :> 0) @@
  (<<"ming", "nian">> :> 1) @@ (<<"lai", "nian">> :> 1) @@ (<<"hou", "nian">> :> 2)

ZhRelativeMonthMap ==
  (<<"shang", "ge", "yue">> :> -1) @@ (<<"shang", "yue">> :> -1) @@
  (<<"ben", "yue">> :> 0) @@ (<<"zhe", "ge", "yue">> :> 0) @@
  (<<"xia", "ge", "yue">> :> 1) @@ (<<"xia", "yue">> :> 1)

\* the words for a week: zhou, xing qi, li bai
Wk_zhou == <<"zhou">>
Wk_xingqi == <<"xing", "qi_period">>
Wk_libai == <<"li", "bai">>

ZhRelativeWeekMap ==
  (<<"shang", "shang">> \o Wk_zhou :> -2) @@ (<<"shang", "shang", "ge">> \o Wk_zhou :> -2) @@
  (<<"shang", "shang">> \o Wk_xingqi :> -2) @@ (<<"shang", "shang", "ge">> \o Wk_xingqi :> -2) @@
  (<<"shang", "shang">> \o Wk_libai :> -2) @@
  (<<"shang">> \o Wk_zhou :> -1) @@ (<<"shang", "ge">> \o Wk_zhou :> -1) @@
  (<<"shang">> \o Wk_xingqi :> -1) @@ (<<"shang", "ge">> \o Wk_xingqi :> -1) @@
  (<<"shang">> \o Wk_libai :> -1) @@ (<<"shang", "ge">> \o Wk_libai :> -1) @@
  (<<"ben">> \o Wk_zhou :> 0) @@ (<<"zhe">> \o Wk_zhou :> 0) @@ (<<"zhe", "ge">> \o Wk_zhou :> 0) @@
  (<<"zhe">> \o Wk_xingqi :> 0) @@ (<<"zhe", "ge">> \o Wk_xingqi :> 0) @@
  (<<"ben">> \o Wk_xingqi :> 0) @@ (<<"zhe", "ge">> \o Wk_libai :> 0) @@
  (<<"ben">> \o Wk_libai :> 0) @@
  (<<"xia">> \o Wk_zhou :> 1) @@ (<<"xia", "ge">> \o Wk_zhou :> 1) @@
  (<<"xia">> \o Wk_xingqi :> 1) @@ (<<"xia", "ge">> \o Wk_xingqi :> 1) @@
  (<<"xia">> \o Wk_libai :> 1) @@ (<<"xia", "ge">> \o Wk_libai :> 1) @@
  (<<"xia", "xia">> \o Wk_zhou :> 2) @@ (<<"xia", "xia", "ge">> \o Wk_zhou :> 2) @@
  (<<"xia", "xia">> \o Wk_xingqi :> 2) @@ (<<"xia", "xia", "ge">> \o Wk_xingqi :> 2) @@
  (<<"xia", "xia">> \o Wk_libai :> 2)

\* num_pattern of ChineseSlotParser._compile_patterns, as group n
ZhNumPattern(n) ==
  Grp(n, Alt(<<Rep(Digit, 1, -1),
               Lit(<<"ling_zero">>), Lit(<<"yi">>), Lit(<<"er">>), Lit(<<"liang">>),
               Lit(<<"san">>), Lit(<<"si">>), Lit(<<"wu_five">>), Lit(<<"liu">>),
               Lit(<<"qi_seven">>), Lit(<<"ba">>), Lit(<<"jiu">>),
               Cat(<<Lit(<<"shi_ten">>),
                     Opt(Set({"yi", "er", "san", "si", "wu_five", "liu",
                              "qi_seven", "ba", "jiu"}))>>)>>))

\* (tian|zhou|yue|nian) as group n
ZhUnit(n) == Grp(n, AltLits(<<(<<"tian">>), (<<"zhou">>), (<<"yue">>), (<<"nian">>)>>))
\* (?!qian|hou|nei)
ZhNoDirection == Neg(AltLits(<<(<<"qian">>), (<<"hou">>), (<<"nei">>)>>))
\* [yi er san si wu liu ri tian]
ZhWeekdayChar == Set({"yi", "er", "san", "si", "wu_five", "liu", "ri", "tian"})
\* ([yi er san si 1234]|Q[1234]|q[1234]) as group n
ZhQuarterKey(n) ==
  Grp(n, Alt(<<Set({"yi", "er", "san", "si", "1", "2", "3", "4"}),
               Cat(<<Lit(<<"Q">>), Set({"1", "2", "3", "4"})>>),
               Cat(<<Lit(<<"q">>), Set({"1", "2", "3", "4"})>>)>>))
\* (xingqi|zhou|libai) as group n
ZhWeekWord(n) == Grp(n, AltLits(<<Wk_xingqi, Wk_zhou, Wk_libai>>))
\* (dian|shi|:)? as group n
ZhClockMark(n) == Opt(Grp(n, AltLits(<<(<<"dian">>), (<<"shi_hour">>), (<<":">>)>>)))

Rule(re, name, slot_type) == [re |-> re, name |-> name, slot_type |-> slot_type, ic |-> FALSE]

\* ChineseSlotParser.patterns after _compile_patterns, in table order
ZhPatterns ==
  << Rule(Cat(<<Grp(1, Rep(Digit, 4, 4)), Lit(<<"nian">>)>>), "specific_year", ST_YEAR),
     Rule(Grp(1, AltLits(<<(<<"qian", "nian">>), (<<"qu", "nian">>), (<<"jin_now", "nian">>),
                           (<<"ben", "nian">>), (<<"ben", "nian", "du">>),
                           (<<"ming", "nian">>), (<<"lai", "nian">>), (<<"hou", "nian">>)>>)),
          "relative_year", ST_YEAR),
     Rule(Cat(<<Grp(1, AltLits(<<(<<"shang">>), (<<"xia">>)>>)), Lit(<<"yi", "nian">>)>>),
          "last_next_year", ST_YEAR),
     Rule(Cat(<<Grp(1, Rep(Digit, 4, 4)), Lit(<<"nian">>), Opt(Grp(2, Lit(<<"di">>))),
                ZhQuarterKey(3), Lit(<<"ji", "du">>)>>),
          "specific_quarter_with_year", ST_QUARTER),
     Rule(Grp(1, AltLits(<<(<<"ben", "ji">>), (<<"ben", "ji", "du">>), (<<"shang", "ji", "du">>),
                           (<<"xia", "ji", "du">>), (<<"xia", "ge", "ji", "du">>)>>)),
          "relative_quarter", ST_QUARTER),
     Rule(Cat(<<Opt(Grp(1, Lit(<<"di">>))), ZhQuarterKey(2), Lit(<<"ji", "du">>)>>),
          "general_quarter", ST_QUARTER),
     Rule(Cat(<<Grp(1, Rep(Digit, 1, 2)), Lit(<<"yue">>), Opt(Neg(Lit(<<"fen_part">>))),
                ZhNoDirection>>),
          "specific_month", ST_MONTH),
     Rule(Grp(1, AltLits(<<(<<"shang", "ge", "yue">>), (<<"shang", "yue">>), (<<"ben", "yue">>),
                           (<<"zhe", "ge", "yue">>), (<<"xia", "ge", "yue">>),
                           (<<"xia", "yue">>)>>)),
          "relative_month", ST_MONTH),
     Rule(Cat(<<Grp(1, Rep(Digit, 1, 2)), Set({"ri", "hao"})>>), "specific_day", ST_DAY),
     Rule(Grp(1, AltLits(<<(<<"da", "qian", "tian">>), (<<"qian", "tian">>), (<<"zuo", "tian">>),
                           (<<"zuo", "ri">>), (<<"jin_now", "tian">>), (<<"jin_now", "ri">>),
                           (<<"dang", "tian">>), (<<"ming", "tian">>), (<<"ming", "ri">>),
                           (<<"hou", "tian">>), (<<"da", "hou", "tian">>)>>)),
          "relative_day", ST_DAY),
     Rule(Cat(<<Grp(1, AltLits(<<(<<"shang", "shang">>), (<<"xia", "xia">>)>>)),
                Opt(Grp(2, Lit(<<"ge">>))), ZhWeekWord(3), Grp(4, ZhWeekdayChar)>>),
          "double_relative_weekday", ST_WEEKDAY),
     Rule(Cat(<<Grp(1, AltLits(<<(<<"shang", "shang">>), (<<"xia", "xia">>)>>)),
                Opt(Grp(2, Lit(<<"ge">>))), ZhWeekWord(3)>>),
          "double_relative_week", ST_WEEKDAY),
     Rule(Cat(<<Grp(1, AltLits(<<(<<"shang">>), (<<"xia">>)>>)), Lit(<<"zhou", "mo">>)>>),
          "weekend", ST_WEEKDAY),
     Rule(Cat(<<Opt(Grp(1, Cat(<<Grp(2, AltLits(<<(<<"shang">>), (<<"xia">>),
                                                   (<<"zhe">>), (<<"ben">>)>>)),
                                 Opt(Grp(3, Lit(<<"ge">>)))>>))),
                ZhWeekWord(4), Grp(5, ZhWeekdayChar)>>),
          "weekday", ST_WEEKDAY),
     Rule(Grp(1, AltLits(<<
            <<"ben">> \o Wk_zhou, <<"zhe">> \o Wk_zhou, <<"zhe", "ge">> \o Wk_zhou,
            <<"shang">> \o Wk_zhou, <<"shang", "ge">> \o Wk_zhou,
            <<"xia">> \o Wk_zhou, <<"xia", "ge">> \o Wk_zhou,
            <<"zhe">> \o Wk_xingqi, <<"zhe", "ge">> \o Wk_xingqi, <<"ben">> \o Wk_xingqi,
            <<"shang">> \o Wk_xingqi, <<"shang", "ge">> \o Wk_xingqi,
            <<"xia">> \o Wk_xingqi, <<"xia", "ge">> \o Wk_xingqi,
            <<"zhe", "ge">> \o Wk_libai, <<"ben">> \o Wk_libai,
            <<"shang">> \o Wk_libai, <<"shang", "ge">> \o Wk_libai,
            <<"xia">> \o Wk_libai, <<"xia", "ge">> \o Wk_libai>>)),
          "relative_week", ST_WEEKDAY),
     Rule(Cat(<<Opt(Grp(1, Lit(<<"xia">>))), Opt(Grp(2, Lit(<<"ge">>))),
                Grp(3, AltLits(<<Wk_xingqi, Wk_zhou>>)), Grp(4, ZhWeekdayChar),
                Set({"dao", "zhi"}),
                Opt(Grp(5, Lit(<<"xia">>))), Opt(Grp(6, Lit(<<"ge">>))),
                Grp(7, AltLits(<<Wk_xingqi, Wk_zhou>>)), Grp(8, ZhWeekdayChar)>>),
          "weekday_range", ST_WEEKDAY),
     Rule(Grp(1, AltLits(<<(<<"ling_dawn", "chen">>), (<<"qing", "chen">>), (<<"zao", "shang">>),
                           (<<"shang", "wu_noon">>), (<<"zhong_mid", "wu_noon">>),
                           (<<"xia", "wu_noon">>), (<<"bang", "wan">>), (<<"wan", "shang">>)>>)),
          "time_period", ST_PERIOD),
     Rule(Cat(<<ZhNumPattern(1), Grp(2, AltLits(<<(<<"dian">>), (<<"shi_hour">>)>>)),
                Opt(Grp(3, Alt(<<Cat(<<ZhNumPattern(4), Opt(Lit(<<"fen">>))>>),
                                 Lit(<<"ban">>)>>)))>>),
          "time_hm", ST_HOUR),
     Rule(Cat(<<Grp(1, Rep(Digit, 1, 2)), Lit(<<":">>), Grp(2, Rep(Digit, 2, 2)),
                Opt(Cat(<<Lit(<<":">>), Grp(3, Rep(Digit, 2, 2))>>))>>),
          "time_colon", ST_HOUR),
     Rule(Cat(<<Grp(1, Rep(Digit, 1, 2)), ZhClockMark(2), Opt(Grp(3, Rep(Digit, 0, 2))),
                Rep(Space, 0, -1), Set({"dao", "zhi"}), Rep(Space, 0, -1),
                Grp(4, Rep(Digit, 1, 2)), ZhClockMark(5), Opt(Grp(6, Rep(Digit, 0, 2)))>>),
          "time_range", ST_HOUR),
     Rule(Cat(<<ZhNumPattern(1), Opt(Lit(<<"ge">>)), ZhUnit(2), Grp(3, Lit(<<"qian">>))>>),
          "offset_ago", ST_RELATIVE),
     Rule(Cat(<<ZhNumPattern(1), Opt(Lit(<<"ge">>)), ZhUnit(2), Grp(3, Lit(<<"hou">>))>>),
          "offset_after", ST_RELATIVE),
     Rule(Cat(<<ZhNumPattern(1), Opt(Lit(<<"ge">>)), ZhUnit(2), Grp(3, Lit(<<"nei">>))>>),
          "offset_inner", ST_RELATIVE),
     Rule(Cat(<<Lit(<<"jin_near">>), ZhNumPattern(1), Opt(Lit(<<"ge">>)), ZhUnit(2)>>),
          "offset_near", ST_RELATIVE),
     Rule(Cat(<<ZhNumPattern(1), Opt(Lit(<<"ge">>)),
                Grp(2, AltLits(<<(<<"xiao", "shi_hour">>), (<<"shi_hour">>)>>)),
                Grp(3, Lit(<<"qian">>))>>),
          "hour_offset_ago", ST_RELATIVE),
     Rule(Cat(<<ZhNumPattern(1), Opt(Lit(<<"ge">>)),
                Grp(2, AltLits(<<(<<"xiao", "shi_hour">>), (<<"shi_hour">>)>>)),
                Grp(3, Lit(<<"hou">>))>>),
          "hour_offset_after", ST_RELATIVE),
     Rule(Cat(<<ZhNumPattern(1),
                Grp(2, AltLits(<<(<<"fen", "zhong_clock">>), (<<"fen">>)>>)),
                Grp(3, Lit(<<"qian">>))>>),
          "minute_offset_ago", ST_RELATIVE),
     Rule(Cat(<<ZhNumPattern(1),
                Grp(2, AltLits(<<(<<"fen", "zhong_clock">>), (<<"fen">>)>>)),
                Grp(3, Lit(<<"hou">>))>>),
          "minute_offset_after", ST_RELATIVE),
     Rule(Cat(<<ZhNumPattern(1), Opt(Lit(<<"ge">>)), ZhUnit(2), ZhNoDirection>>),
          "num_unit", ST_RELATIVE) >>

(***************************************************************************)
(* Numbers                                                                 *)
(***************************************************************************)
DigitValue ==
  ("0" :> 0) @@ ("1" :> 1) @@ ("2" :> 2) @@ ("3" :> 3) @@ ("4" :> 4) @@
  ("5" :> 5) @@ ("6" :> 6) @@ ("7" :> 7) @@ ("8" :> 8) @@ ("9" :> 9)

\* str.isdigit()
isdigit(str) == str # NoneSeq /\ str # <<>> /\ \A i \in 1..Len(str) : str[i] \in Digits

\* int(str) of a string of digits
RECURSIVE IntOf(_, _)
IntOf(acc, str) ==
  IF str = <<>> THEN acc ELSE IntOf(acc * 10 + DigitValue[Head(str)], Tail(str))
int(str) == IntOf(0, str)

\* a Python str that is not None and not empty
NonEmpty(str) == str # NoneSeq /\ str # <<>>

\* the index of the first occurrence of c in str from index i on, 0 if none
RECURSIVE IndexOf(_, _, _)
IndexOf(str, c, i) ==
  IF i > Len(str) THEN 0 ELSE IF str[i] = c THEN i ELSE IndexOf(str, c, i + 1)

\* num_str.split(shi_ten)[0] and [1]; [1] is None when there is one part only
SplitPart0(str) == Slice(str, 0, IndexOf(str, "shi_ten", 1) - 1)
SplitPart1(str) ==
  LET first == IndexOf(str, "shi_ten", 1)
      second == IndexOf(str, "shi_ten", first + 1)
  IN IF first = 0 THEN NoneSeq
     ELSE Slice(str, first, IF second = 0 THEN Len(str) ELSE second - 1)

\* ChineseSlotParser._parse_complex_number
Zh_parse_complex_number(num_str) ==
  IF ~NonEmpty(num_str) THEN 0
  ELSE IF num_str \in DOMAIN ZhNumMap THEN ZhNumMap[num_str]
  ELSE IF IndexOf(num_str, "shi_ten", 1) # 0 THEN
    LET part0 == SplitPart0(num_str)
        part1 == SplitPart1(num_str)
        tens == IF part0 # <<>> THEN DictGet(ZhNumMap, part0, 1) ELSE 1
        ones == IF NonEmpty(part1) THEN DictGet(ZhNumMap, part1, 0) ELSE 0
    IN tens * 10 + ones
  ELSE 0

\* ChineseSlotParser.parse_number
Zh_parse_number(num_str) ==
  IF ~NonEmpty(num_str) THEN 0
  ELSE IF isdigit(num_str) THEN int(num_str)
  ELSE IF num_str \in DOMAIN ZhNumMap THEN ZhNumMap[num_str]
  ELSE Zh_parse_complex_number(num_str)

\* x in str, for a one-character x
Contains(str, c) == str # NoneSeq /\ IndexOf(str, c, 1) # 0

\* str.replace(c, '') for a one-character c
RECURSIVE RemoveChar(_, _)
RemoveChar(str, c) ==
  IF str = <<>> THEN <<>>
  ELSE (IF Head(str) = c THEN <<>> ELSE <<Head(str)>>) \o RemoveChar(Tail(str), c)

(***************************************************************************)
(* ChineseSlotParser._extract_slot.  g is match.groups(): groups[k] of the *)
(* source is g[k + 1].  Every int() is applied to digits the rule's own    *)
(* pattern matched, so no branch raises and a slot is always returned.     *)
(***************************************************************************)
Zh_extract_slot(g, pattern_name) ==
  LET slot == TimeSlot
  IN CASE pattern_name = "specific_year" -> [slot EXCEPT !.year = int(g[1])]
       [] pattern_name = "relative_year" ->
            LET offset == DictGet(ZhRelativeYearMap, g[1], 0)
            IN [slot EXCEPT !.offset_value = Abs(offset),
                            !.offset_unit = <<"nian">>,
                            !.offset_type = IF offset < 0 THEN AGO
                                            ELSE IF offset > 0 THEN AFTER ELSE NONE,
                            !.relative_day = IF offset = 0 THEN <<"jin_now", "nian">>
                                             ELSE NoneSeq]
       [] pattern_name = "last_next_year" ->
            [slot EXCEPT !.offset_value = 1, !.offset_unit = <<"nian">>,
                         !.offset_type = IF g[1] = <<"shang">> THEN AGO ELSE AFTER]
       [] pattern_name = "specific_quarter_with_year" ->
            LET q_key == lower(g[3])
            IN [slot EXCEPT !.year = int(g[1]),
                            !.quarter = IF q_key \in DOMAIN ZhQuarterMap
                                        THEN ZhQuarterMap[q_key] ELSE None]
       [] pattern_name = "relative_quarter" ->
            IF g[1] \in {<<"ben", "ji">>, <<"ben", "ji", "du">>}
            THEN [slot EXCEPT !.quarter = 0, !.relative_day = <<"ben", "ji">>]
            ELSE IF g[1] = <<"shang", "ji", "du">>
            THEN [slot EXCEPT !.offset_value = 1, !.offset_unit = <<"ji", "du">>,
                              !.offset_type = AGO]
            ELSE IF g[1] \in {<<"xia", "ji", "du">>, <<"xia", "ge", "ji", "du">>}
            THEN [slot EXCEPT !.offset_value = 1, !.offset_unit = <<"ji", "du">>,
                              !.offset_type = AFTER]
            ELSE slot
       [] pattern_name = "general_quarter" ->
            LET q_key == IF NonEmpty(g[2]) THEN lower(g[2]) ELSE lower(g[1])
            IN [slot EXCEPT !.quarter = IF q_key \in DOMAIN ZhQuarterMap
                                        THEN ZhQuarterMap[q_key] ELSE None]
       [] pattern_name = "specific_month" -> [slot EXCEPT !.month = int(g[1])]
       [] pattern_name = "relative_month" ->
            LET offset == DictGet(ZhRelativeMonthMap, g[1], 0)
            IN IF offset = 0 THEN [slot EXCEPT !.relative_day = <<"ben", "yue">>]
               ELSE [slot EXCEPT !.offset_value = Abs(offset), !.offset_unit = <<"yue">>,
                                 !.offset_type = IF offset < 0 THEN AGO ELSE AFTER]
       [] pattern_name = "specific_day" -> [slot EXCEPT !.day = int(g[1])]
       [] pattern_name = "relative_day" -> [slot EXCEPT !.relative_day = g[1]]
       [] pattern_name = "double_relative_weekday" ->
            [slot EXCEPT !.weekday = DictGet(ZhWeekdayMap, g[4], 0),
                         !.week_offset = IF g[1] = <<"shang", "shang">> THEN -2 ELSE 2]
       [] pattern_name = "double_relative_week" ->
            [slot EXCEPT !.week_offset = IF g[1] = <<"shang", "shang">> THEN -2 ELSE 2,
                         !.is_range_start = TRUE]
       [] pattern_name = "weekend" ->
            [slot EXCEPT !.weekday = 5, !.is_range_start = TRUE,
                         !.week_offset = IF g[1] = <<"shang">> THEN -1 ELSE 1]
       [] pattern_name = "weekday" ->
            LET prefix == IF NonEmpty(g[2]) THEN g[2] ELSE <<>>
            IN [slot EXCEPT !.weekday = DictGet(ZhWeekdayMap, g[5], 0),
                            !.week_offset = IF Contains(prefix, "shang") THEN -1
                                            ELSE IF Contains(prefix, "xia") THEN 1 ELSE 0]
       [] pattern_name = "relative_week" ->
            IF g[1] \in DOMAIN ZhRelativeWeekMap
            THEN [slot EXCEPT !.week_offset = ZhRelativeWeekMap[g[1]],
                              !.is_range_start = TRUE]
            ELSE slot
       [] pattern_name = "weekday_range" ->
            [slot EXCEPT !.weekday = DictGet(ZhWeekdayMap, g[4], 0),
                         !.is_range_start = TRUE,
                         !.week_offset = IF g[1] # NoneSeq THEN 1 ELSE 0,
                         !.second = DictGet(ZhWeekdayMap, g[8], 0)]
       [] pattern_name = "time_period" -> [slot EXCEPT !.period = g[1]]
       [] pattern_name = "time_hm" ->
            LET minute_part == g[3]
                cleaned == RemoveChar(minute_part, "fen")
            IN [slot EXCEPT !.hour = Zh_parse_number(g[1]),
                            !.minute = IF minute_part = <<"ban">> THEN 30
                                       ELSE IF NonEmpty(minute_part)
                                       THEN (IF cleaned # <<>> THEN Zh_parse_number(cleaned)
                                             ELSE 0)
                                       ELSE 0]
       [] pattern_name = "time_colon" ->
            [slot EXCEPT !.hour = int(g[1]), !.minute = int(g[2]),
                         !.second = IF NonEmpty(g[3]) THEN int(g[3]) ELSE None]
       [] pattern_name = "time_range" ->
            [slot EXCEPT !.hour = int(g[1]),
                         !.minute = IF NonEmpty(g[3]) THEN int(g[3]) ELSE 0,
                         !.is_range_start = TRUE,
                         !.second = int(g[4])]
       [] pattern_name \in {"offset_ago", "offset_after", "offset_inner"} ->
            [slot EXCEPT !.offset_value = Zh_parse_number(g[1]),
                         !.offset_unit = g[2],
                         !.offset_type = IF pattern_name = "offset_ago" THEN AGO
                                         ELSE IF pattern_name = "offset_after" THEN AFTER
                                         ELSE INNER]
       [] pattern_name = "offset_near" ->
            [slot EXCEPT !.offset_value = Zh_parse_number(g[1]),
                         !.offset_unit = g[2], !.offset_type = NEAR]
       [] pattern_name \in {"hour_offset_ago", "hour_offset_after"} ->
            [slot EXCEPT !.offset_value = Zh_parse_number(g[1]),
                         !.offset_unit = <<"xiao", "shi_hour">>,
                         !.offset_type = IF pattern_name = "hour_offset_ago" THEN AGO
                                         ELSE AFTER]
       [] pattern_name \in {"minute_offset_ago", "minute_offset_after"} ->
            [slot EXCEPT !.offset_value = Zh_parse_number(g[1]),
                         !.offset_unit = <<"fen", "zhong_clock">>,
                         !.offset_type = IF pattern_name = "minute_offset_ago" THEN AGO
                                         ELSE AFTER]
       [] pattern_name = "num_unit" ->
            [slot EXCEPT !.offset_value = Zh_parse_number(g[1]),
                         !.offset_unit = g[2], !.offset_type = NEAR]
       [] OTHER -> slot

(***************************************************************************)
(* EnglishSlotParser: lookup tables and the rule table                     *)
(***************************************************************************)
EnWeekdayMap ==
  (<<"m", "o", "n", "d", "a", "y">> :> 0) @@ (<<"m", "o", "n">> :> 0) @@ (<<"t", "u", "e", "s", "d", "a", "y">> :> 1) @@
  (<<"t", "u", "e">> :> 1) @@ (<<"t", "u", "e", "s">> :> 1) @@ (<<"w", "e", "d", "n", "e", "s", "d", "a", "y">> :> 2) @@
  (<<"w", "e", "d">> :> 2) @@ (<<"t", "h", "u", "r", "s", "d", "a", "y">> :> 3) @@ (<<"t", "h", "u">> :> 3) @@
  (<<"t", "h", "u", "r">> :> 3) @@ (<<"t", "h", "u", "r", "s">> :> 3) @@ (<<"f", "r", "i", "d", "a", "y">> :> 4) @@
  (<<"f", "r", "i">> :> 4) @@ (<<"s", "a", "t", "u", "r", "d", "a", "y">> :> 5) @@ (<<"s", "a", "t">> :> 5) @@
  (<<"s", "u", "n", "d", "a", "y">> :> 6) @@ (<<"s", "u", "n">> :> 6)

\* EnglishSlotParser.QUARTER_MAP: the keys in dict order, and their quarter
EnQuarterKeys ==
  <<<<"q", "1">>,
    <<"f", "i", "r", "s", "t", " ", "q", "u", "a", "r", "t", "e", "r">>,
    <<"1", "s", "t", " ", "q", "u", "a", "r", "t", "e", "r">>,
    <<"q", "2">>,
    <<"s", "e", "c", "o", "n", "d", " ", "q", "u", "a", "r", "t", "e", "r">>,
    <<"2", "n", "d", " ", "q", "u", "a", "r", "t", "e", "r">>,
    <<"q", "3">>,
    <<"t", "h", "i", "r", "d", " ", "q", "u", "a", "r", "t", "e", "r">>,
    <<"3", "r", "d", " ", "q", "u", "a", "r", "t", "e", "r">>,
    <<"q", "4">>,
    <<"f", "o", "u", "r", "t", "h", " ", "q", "u", "a", "r", "t", "e", "r">>,
    <<"4", "t", "h", " ", "q", "u", "a", "r", "t", "e", "r">>>>
EnQuarterMap ==
  (<<"q", "1">> :> 1) @@ (<<"f", "i", "r", "s", "t", " ", "q", "u", "a", "r", "t", "e", "r">> :> 1) @@
  (<<"1", "s", "t", " ", "q", "u", "a", "r", "t", "e", "r">> :> 1) @@ (<<"q", "2">> :> 2) @@
  (<<"s", "e", "c", "o", "n", "d", " ", "q", "u", "a", "r", "t", "e", "r">> :> 2) @@ (<<"2", "n", "d", " ", "q", "u", "a", "r", "t", "e", "r">> :> 2) @@
  (<<"q", "3">> :> 3) @@ (<<"t", "h", "i", "r", "d", " ", "q", "u", "a", "r", "t", "e", "r">> :> 3) @@
  (<<"3", "r", "d", " ", "q", "u", "a", "r", "t", "e", "r">> :> 3) @@ (<<"q", "4">> :> 4) @@
  (<<"f", "o", "u", "r", "t", "h", " ", "q", "u", "a", "r", "t", "e", "r">> :> 4) @@ (<<"4", "t", "h", " ", "q", "u", "a", "r", "t", "e", "r">> :> 4)

EnNumMap ==
  (<<"z", "e", "r", "o">> :> 0) @@ (<<"o", "n", "e">> :> 1) @@ (<<"t", "w", "o">> :> 2) @@
  (<<"t", "h", "r", "e", "e">> :> 3) @@ (<<"f", "o", "u", "r">> :> 4) @@ (<<"f", "i", "v", "e">> :> 5) @@
  (<<"s", "i", "x">> :> 6) @@ (<<"s", "e", "v", "e", "n">> :> 7) @@ (<<"e", "i", "g", "h", "t">> :> 8) @@
  (<<"n", "i", "n", "e">> :> 9) @@ (<<"t", "e", "n">> :> 10) @@ (<<"e", "l", "e", "v", "e", "n">> :> 11) @@
  (<<"t", "w", "e", "l", "v", "e">> :> 12) @@ (<<"t", "h", "i", "r", "t", "e", "e", "n">> :> 13) @@ (<<"f", "o", "u", "r", "t", "e", "e", "n">> :> 14) @@
  (<<"f", "i", "f", "t", "e", "e", "n">> :> 15) @@ (<<"s", "i", "x", "t", "e", "e", "n">> :> 16) @@ (<<"s", "e", "v", "e", "n", "t", "e", "e", "n">> :> 17) @@
  (<<"e", "i", "g", "h", "t", "e", "e", "n">> :> 18) @@ (<<"n", "i", "n", "e", "t", "e", "e", "n">> :> 19) @@ (<<"t", "w", "e", "n", "t", "y">> :> 20) @@
  (<<"t", "h", "i", "r", "t", "y">> :> 30) @@ (<<"f", "o", "r", "t", "y">> :> 40) @@ (<<"f", "i", "f", "t", "y">> :> 50)

\* month_map of the month_name branch
EnMonthMap ==
  (<<"j", "a", "n", "u", "a", "r", "y">> :> 1) @@ (<<"j", "a", "n">> :> 1) @@ (<<"f", "e", "b", "r", "u", "a", "r", "y">> :> 2) @@
  (<<"f", "e", "b">> :> 2) @@ (<<"m", "a", "r", "c", "h">> :> 3) @@ (<<"m", "a", "r">> :> 3) @@
  (<<"a", "p", "r", "i", "l">> :> 4) @@ (<<"a", "p", "r">> :> 4) @@ (<<"m", "a", "y">> :> 5) @@
  (<<"j", "u", "n", "e">> :> 6) @@ (<<"j", "u", "n">> :> 6) @@ (<<"j", "u", "l", "y">> :> 7) @@
  (<<"j", "u", "l">> :> 7) @@ (<<"a", "u", "g", "u", "s", "t">> :> 8) @@ (<<"a", "u", "g">> :> 8) @@
  (<<"s", "e", "p", "t", "e", "m", "b", "e", "r">> :> 9) @@ (<<"s", "e", "p">> :> 9) @@ (<<"o", "c", "t", "o", "b", "e", "r">> :> 10) @@
  (<<"o", "c", "t">> :> 10) @@ (<<"n", "o", "v", "e", "m", "b", "e", "r">> :> 11) @@ (<<"n", "o", "v">> :> 11) @@
  (<<"d", "e", "c", "e", "m", "b", "e", "r">> :> 12) @@ (<<"d", "e", "c">> :> 12)

\* num_pattern of EnglishSlotParser._compile_patterns, as group n
EnNumPattern(n) ==
  Grp(n, Alt(<<Rep(Digit, 1, -1),
               Lit(<<"o", "n", "e">>), Lit(<<"t", "w", "o">>), Lit(<<"t", "h", "r", "e", "e">>),
               Lit(<<"f", "o", "u", "r">>), Lit(<<"f", "i", "v", "e">>), Lit(<<"s", "i", "x">>),
               Lit(<<"s", "e", "v", "e", "n">>), Lit(<<"e", "i", "g", "h", "t">>), Lit(<<"n", "i", "n", "e">>),
               Lit(<<"t", "e", "n">>), Lit(<<"e", "l", "e", "v", "e", "n">>), Lit(<<"t", "w", "e", "l", "v", "e">>)>>))

\* (days?|weeks?|months?|years?) as group n
EnUnit(n) ==
  Grp(n, Alt(<<Cat(<<Lit(<<"d", "a", "y">>), Opt(Lit(<<"s">>))>>),
               Cat(<<Lit(<<"w", "e", "e", "k">>), Opt(Lit(<<"s">>))>>),
               Cat(<<Lit(<<"m", "o", "n", "t", "h">>), Opt(Lit(<<"s">>))>>),
               Cat(<<Lit(<<"y", "e", "a", "r">>), Opt(Lit(<<"s">>))>>)>>))
\* \s*
Spaces0 == Rep(Space, 0, -1)
\* \s+
Spaces1 == Rep(Space, 1, -1)
\* (last|this|next) as group n
EnLastThisNext(n) == Grp(n, AltLits(<<(<<"l", "a", "s", "t">>), (<<"t", "h", "i", "s">>), (<<"n", "e", "x", "t">>)>>))
\* (?:later|from now)
EnLater == AltLits(<<(<<"l", "a", "t", "e", "r">>), (<<"f", "r", "o", "m", " ", "n", "o", "w">>)>>)
\* (?:st|nd|rd|th)
EnOrdinalSuffix == AltLits(<<(<<"s", "t">>), (<<"n", "d">>), (<<"r", "d">>), (<<"t", "h">>)>>)
\* (am|pm) and (am|pm|o'clock)
EnAmPm == AltLits(<<(<<"a", "m">>), (<<"p", "m">>)>>)
EnAmPmOclock == AltLits(<<(<<"a", "m">>), (<<"p", "m">>), (<<"o", "'", "c", "l", "o", "c", "k">>)>>)

\* a rule compiled with (?i)
RuleI(re, name, slot_type) == [re |-> re, name |-> name, slot_type |-> slot_type, ic |-> TRUE]

\* EnglishSlotParser.patterns after _compile_patterns, in table order
EnPatterns ==
  << Rule(Grp(1, Rep(Digit, 4, 4)), "specific_year", ST_YEAR),
     RuleI(Grp(1, AltLits(<<(<<"l", "a", "s", "t", " ", "y", "e", "a", "r">>), (<<"t", "h", "i", "s", " ", "y", "e", "a", "r">>),
                            (<<"n", "e", "x", "t", " ", "y", "e", "a", "r">>)>>)),
           "relative_year", ST_YEAR),
     RuleI(Grp(1, Alt(<<Cat(<<Lit(<<"Q">>), Set({"1", "2", "3", "4"})>>),
                        Cat(<<Set({"1", "2", "3", "4"}), EnOrdinalSuffix,
                              Lit(<<" ", "q", "u", "a", "r", "t", "e", "r">>)>>)>>)),
           "quarter", ST_QUARTER),
     RuleI(Grp(1, AltLits(<<
    (<<"j", "a", "n", "u", "a", "r", "y">>), (<<"f", "e", "b", "r", "u", "a", "r", "y">>), (<<"m", "a", "r", "c", "h">>),
    (<<"a", "p", "r", "i", "l">>), (<<"m", "a", "y">>), (<<"j", "u", "n", "e">>),
    (<<"j", "u", "l", "y">>), (<<"a", "u", "g", "u", "s", "t">>), (<<"s", "e", "p", "t", "e", "m", "b", "e", "r">>),
    (<<"o", "c", "t", "o", "b", "e", "r">>), (<<"n", "o", "v", "e", "m", "b", "e", "r">>), (<<"d", "e", "c", "e", "m", "b", "e", "r">>),
    (<<"j", "a", "n">>), (<<"f", "e", "b">>), (<<"m", "a", "r">>),
    (<<"a", "p", "r">>), (<<"j", "u", "n">>), (<<"j", "u", "l">>),
    (<<"a", "u", "g">>), (<<"s", "e", "p">>), (<<"o", "c", "t">>),
    (<<"n", "o", "v">>), (<<"d", "e", "c">>)>>)),
           "month_name", ST_MONTH),
     RuleI(Grp(1, AltLits(<<(<<"l", "a", "s", "t", " ", "m", "o", "n", "t", "h">>), (<<"t", "h", "i", "s", " ", "m", "o", "n", "t", "h">>),
                            (<<"n", "e", "x", "t", " ", "m", "o", "n", "t", "h">>)>>)),
           "relative_month", ST_MONTH),
     Rule(Cat(<<Grp(1, Rep(Digit, 1, 2)), Opt(EnOrdinalSuffix),
                Pos(Alt(<<Space, Lit(<<",">>), EndOfText>>))>>),
          "specific_day", ST_DAY),
     RuleI(Grp(1, AltLits(<<W_day_before_yesterday, W_yesterday, W_today, W_tomorrow,
                            W_day_after_tomorrow>>)),
           "relative_day", ST_DAY),
     RuleI(Cat(<<EnLastThisNext(1), Spaces1, Grp(2, Lit(<<"w", "e", "e", "k">>))>>),
           "relative_week", ST_WEEKDAY),
     RuleI(Cat(<<Opt(EnLastThisNext(1)), Spaces0,
                 Grp(2, AltLits(<<
    (<<"m", "o", "n", "d", "a", "y">>), (<<"t", "u", "e", "s", "d", "a", "y">>), (<<"w", "e", "d", "n", "e", "s", "d", "a", "y">>),
    (<<"t", "h", "u", "r", "s", "d", "a", "y">>), (<<"f", "r", "i", "d", "a", "y">>), (<<"s", "a", "t", "u", "r", "d", "a", "y">>),
    (<<"s", "u", "n", "d", "a", "y">>), (<<"m", "o", "n">>), (<<"t", "u", "e">>),
    (<<"t", "u", "e", "s">>), (<<"w", "e", "d">>), (<<"t", "h", "u">>),
    (<<"t", "h", "u", "r">>), (<<"t", "h", "u", "r", "s">>), (<<"f", "r", "i">>),
    (<<"s", "a", "t">>), (<<"s", "u", "n">>)>>))>>),
           "weekday", ST_WEEKDAY),
     RuleI(Cat(<<EnLastThisNext(1), Spaces1, Lit(<<"w", "e", "e", "k", "e", "n", "d">>)>>),
           "weekend", ST_WEEKDAY),
     RuleI(Grp(1, AltLits(<<(<<"d", "a", "w", "n">>), (<<"e", "a", "r", "l", "y", " ", "m", "o", "r", "n", "i", "n", "g">>),
                            (<<"m", "o", "r", "n", "i", "n", "g">>), (<<"n", "o", "o", "n">>),
                            (<<"a", "f", "t", "e", "r", "n", "o", "o", "n">>), (<<"e", "v", "e", "n", "i", "n", "g">>),
                            (<<"n", "i", "g", "h", "t">>)>>)),
           "time_period", ST_PERIOD),
     RuleI(Cat(<<Grp(1, Rep(Digit, 1, 2)), Lit(<<":">>), Grp(2, Rep(Digit, 2, 2)),
                 Opt(Cat(<<Lit(<<":">>), Grp(3, Rep(Digit, 2, 2))>>)),
                 Spaces0, Opt(Grp(4, EnAmPm))>>),
           "time_colon", ST_HOUR),
     RuleI(Cat(<<Grp(1, Rep(Digit, 1, 2)), Spaces0, Grp(2, EnAmPmOclock)>>),
           "time_simple", ST_HOUR),
     RuleI(Cat(<<Lit(<<"h", "a", "l", "f", " ", "p", "a", "s", "t", " ">>), Grp(1, Rep(Digit, 1, 2))>>),
           "time_half_past", ST_HOUR),
     Rule(Cat(<<Grp(1, Rep(Digit, 1, 2)), Opt(Lit(<<":">>)), Opt(Grp(2, Rep(Digit, 2, 2))),
                Spaces0, Lit(<<"t", "o">>), Spaces0,
                Grp(3, Rep(Digit, 1, 2)), Opt(Lit(<<":">>)), Opt(Grp(4, Rep(Digit, 2, 2)))>>),
          "time_range", ST_HOUR),
     RuleI(Cat(<<EnNumPattern(1), Spaces0, EnUnit(2), Spaces0, Lit(<<"a", "g", "o">>)>>),
           "offset_ago", ST_RELATIVE),
     RuleI(Cat(<<EnNumPattern(1), Spaces0, EnUnit(2), Spaces0, EnLater>>),
           "offset_after", ST_RELATIVE),
     RuleI(Cat(<<AltLits(<<(<<"i", "n">>), (<<"w", "i", "t", "h", "i", "n">>)>>), Spaces0,
                 EnNumPattern(1), Spaces0, EnUnit(2)>>),
           "offset_inner", ST_RELATIVE),
     RuleI(Cat(<<AltLits(<<(<<"l", "a", "s", "t">>), (<<"p", "a", "s", "t">>), (<<"r", "e", "c", "e", "n", "t">>)>>),
                 Spaces0, EnNumPattern(1), Spaces0, EnUnit(2)>>),
           "offset_near", ST_RELATIVE),
     RuleI(Cat(<<EnNumPattern(1), Spaces0,
                 Grp(2, Cat(<<Lit(<<"h", "o", "u", "r">>), Opt(Lit(<<"s">>))>>)),
                 Spaces0, Lit(<<"a", "g", "o">>)>>),
           "hour_offset_ago", ST_RELATIVE),
     RuleI(Cat(<<EnNumPattern(1), Spaces0,
                 Grp(2, Cat(<<Lit(<<"h", "o", "u", "r">>), Opt(Lit(<<"s">>))>>)),
                 Spaces0, EnLater>>),
           "hour_offset_after", ST_RELATIVE),
     RuleI(Cat(<<EnNumPattern(1), Spaces0,
                 Grp(2, Cat(<<Lit(<<"m", "i", "n", "u", "t", "e">>), Opt(Lit(<<"s">>))>>)),
                 Spaces0, Lit(<<"a", "g", "o">>)>>),
           "minute_offset_ago", ST_RELATIVE),
     RuleI(Cat(<<EnNumPattern(1), Spaces0,
                 Grp(2, Cat(<<Lit(<<"m", "i", "n", "u", "t", "e">>), Opt(Lit(<<"s">>))>>)),
                 Spaces0, EnLater>>),
           "minute_offset_after", ST_RELATIVE) >>

\* the patterns attribute a parser of lang is constructed with
PatternsOf(lang) == IF lang = CHINESE THEN ZhPatterns ELSE EnPatterns

\* key in str, for strings
IsSubstring(key, str) ==
  \E i \in 0..(Len(str) - Len(key)) : \A k \in 1..Len(key) : str[i + k] = key[k]

\* SlotParserBase.parse_number with EnglishSlotParser.NUM_MAP (the base
\* class's _parse_complex_number returns 0)
En_parse_number(num_str) ==
  IF ~NonEmpty(num_str) THEN 0
  ELSE IF isdigit(num_str) THEN int(num_str)
  ELSE IF num_str \in DOMAIN EnNumMap THEN EnNumMap[num_str]
  ELSE 0

\* str.rstrip('s')
RECURSIVE rstrip_s(_)
rstrip_s(str) ==
  IF str # <<>> /\ str[Len(str)] = "s" THEN rstrip_s(SubSeq(str, 1, Len(str) - 1)) ELSE str

\* the first key of QUARTER_MAP, in dict order, that q_str holds
RECURSIVE FirstQuarterKey(_, _)
FirstQuarterKey(keys, q_str) ==
  IF keys = <<>> THEN None
  ELSE IF IsSubstring(Head(keys), q_str) THEN EnQuarterMap[Head(keys)]
  ELSE FirstQuarterKey(Tail(keys), q_str)

\* the am / pm adjustment of time_colon and time_simple
AmPmHour(hour, ampm) ==
  IF ~NonEmpty(ampm) THEN hour
  ELSE IF lower(ampm) = <<"p", "m">> /\ hour < 12 THEN hour + 12
  ELSE IF lower(ampm) = <<"a", "m">> /\ hour = 12 THEN 0
  ELSE hour

\* last -> -1, next -> 1, else 0
EnWeekOffset(prefix) ==
  IF prefix = <<"l", "a", "s", "t">> THEN -1 ELSE IF prefix = <<"n", "e", "x", "t">> THEN 1 ELSE 0

(***************************************************************************)
(* EnglishSlotParser._extract_slot (groups[k] of the source is g[k + 1])   *)
(***************************************************************************)
En_extract_slot(g, pattern_name) ==
  LET slot == TimeSlot
  IN CASE pattern_name = "specific_year" -> [slot EXCEPT !.year = int(g[1])]
       [] pattern_name = "relative_year" ->
            IF lower(g[1]) = <<"l", "a", "s", "t", " ", "y", "e", "a", "r">>
            THEN [slot EXCEPT !.offset_value = 1, !.offset_unit = U_year, !.offset_type = AGO]
            ELSE IF lower(g[1]) = <<"n", "e", "x", "t", " ", "y", "e", "a", "r">>
            THEN [slot EXCEPT !.offset_value = 1, !.offset_unit = U_year, !.offset_type = AFTER]
            ELSE [slot EXCEPT !.relative_day = W_this_year]
       [] pattern_name = "quarter" ->
            [slot EXCEPT !.quarter = FirstQuarterKey(EnQuarterKeys, lower(g[1]))]
       [] pattern_name = "month_name" ->
            [slot EXCEPT !.month = DictGet(EnMonthMap, lower(g[1]), 1)]
       [] pattern_name = "relative_month" ->
            IF lower(g[1]) = <<"l", "a", "s", "t", " ", "m", "o", "n", "t", "h">>
            THEN [slot EXCEPT !.offset_value = 1, !.offset_unit = U_month, !.offset_type = AGO]
            ELSE IF lower(g[1]) = <<"n", "e", "x", "t", " ", "m", "o", "n", "t", "h">>
            THEN [slot EXCEPT !.offset_value = 1, !.offset_unit = U_month, !.offset_type = AFTER]
            ELSE [slot EXCEPT !.relative_day = W_this_month]
       [] pattern_name = "specific_day" -> [slot EXCEPT !.day = int(g[1])]
       [] pattern_name = "relative_day" -> [slot EXCEPT !.relative_day = lower(g[1])]
       [] pattern_name = "relative_week" ->
            [slot EXCEPT !.week_offset = EnWeekOffset(lower(g[1])), !.is_range_start = TRUE]
       [] pattern_name = "weekday" ->
            LET prefix == IF NonEmpty(g[1]) THEN lower(g[1]) ELSE <<>>
            IN [slot EXCEPT !.weekday = DictGet(EnWeekdayMap, lower(g[2]), 0),
                            !.week_offset = EnWeekOffset(prefix)]
       [] pattern_name = "weekend" ->
            [slot EXCEPT !.weekday = 5, !.is_range_start = TRUE,
                         !.week_offset = EnWeekOffset(lower(g[1]))]
       [] pattern_name = "time_period" -> [slot EXCEPT !.period = lower(g[1])]
       [] pattern_name = "time_colon" ->
            [slot EXCEPT !.hour = AmPmHour(int(g[1]), g[4]), !.minute = int(g[2]),
                         !.second = IF NonEmpty(g[3]) THEN int(g[3]) ELSE None]
       [] pattern_name = "time_simple" ->
            [slot EXCEPT !.hour = AmPmHour(int(g[1]), g[2]), !.minute = 0]
       [] pattern_name = "time_half_past" -> [slot EXCEPT !.hour = int(g[1]), !.minute = 30]
       [] pattern_name = "time_range" ->
            [slot EXCEPT !.hour = int(g[1]),
                         !.minute = IF NonEmpty(g[2]) THEN int(g[2]) ELSE 0,
                         !.is_range_start = TRUE,
                         !.second = int(g[3])]
       [] pattern_name \in {"offset_ago", "offset_after", "offset_inner", "offset_near"} ->
            [slot EXCEPT !.offset_value = En_parse_number(g[1]),
                         !.offset_unit = rstrip_s(lower(g[2])),
                         !.offset_type = IF pattern_name = "offset_ago" THEN AGO
                                         ELSE IF pattern_name = "offset_after" THEN AFTER
                                         ELSE IF pattern_name = "offset_inner" THEN INNER
                                         ELSE NEAR]
       [] pattern_name \in {"hour_offset_ago", "hour_offset_after"} ->
            [slot EXCEPT !.offset_value = En_parse_number(g[1]), !.offset_unit = U_hour,
                         !.offset_type = IF pattern_name = "hour_offset_ago" THEN AGO
                                         ELSE AFTER]
       [] pattern_name \in {"minute_offset_ago", "minute_offset_after"} ->
            [slot EXCEPT !.offset_value = En_parse_number(g[1]), !.offset_unit = U_minute,
                         !.offset_type = IF pattern_name = "minute_offset_ago" THEN AGO
                                         ELSE AFTER]
       [] OTHER -> slot

(***************************************************************************)
(* SlotParserBase.parse                                                    *)
(***************************************************************************)
\* the parser class's own _extract_slot
_extract_slot(lang, g, pattern_name) ==
  IF lang = CHINESE THEN Zh_extract_slot(g, pattern_name)
  ELSE En_extract_slot(g, pattern_name)

ParseResult(slot_type, slot, matched_text, pattern_name, start_pos, end_pos) ==
  [slot_type |-> slot_type, slot |-> slot, matched_text |-> matched_text,
   pattern_name |-> pattern_name, start_pos |-> start_pos, end_pos |-> end_pos]

\* the inner loop: the results of one rule, match by match
ParseRule(lang, rule, text) ==
  LET ms == finditer(rule.re, text, 0, rule.ic)
  IN [i \in 1..Len(ms) |->
        ParseResult(rule.slot_type,
                    _extract_slot(lang, ms[i].groups, rule.name),
                    Slice(text, ms[i].start, ms[i].end),
                    rule.name, ms[i].start, ms[i].end)]

\* the outer loop: rule by rule, in table order
RECURSIVE ParseRules(_, _, _)
ParseRules(lang, patterns, text) ==
  IF patterns = <<>> THEN <<>>
  ELSE ParseRule(lang, Head(patterns), text) \o ParseRules(lang, Tail(patterns), text)

parse(lang, patterns, text) == ParseRules(lang, patterns, text)

(***************************************************************************)
(* TimeRangeExtractor.extract with now given: the returned list (or the    *)
(* exception that leaves it) and which collaborators the call ran          *)
(***************************************************************************)
\* slots = [r.slot for r in parse_results]
SlotsOf(parse_results) == [i \in 1..Len(parse_results) |-> parse_results[i].slot]

\* extract without its empty-text return: the parser is run on every text
ExtractCall_NoEmptyGuard(lang, patterns, combiner_language, text, now_arg, clock) ==
  LET now == IF now_arg = NoneDT THEN clock ELSE now_arg
      parse_results == parse(lang, patterns, text)
  IN IF parse_results = <<>>
     THEN [result |-> Ok(<<>>), ran |-> {"parser"}, now |-> now]
     ELSE [result |->
             combine(combiner_language,
                     SlotsOf(_remove_overlapping_matches(SortByStart(parse_results))),
                     now),
           ran |-> {"parser", "resolver", "combiner"}, now |-> now]

\* now_arg = NoneDT is now=None: the clock is read once the text is not empty
ExtractCall(lang, patterns, combiner_language, text, now_arg, clock) ==
  IF ~NonEmpty(text) THEN [result |-> Ok(<<>>), ran |-> {}, now |-> now_arg]
  ELSE LET now == IF now_arg = NoneDT THEN clock ELSE now_arg
           parse_results == parse(lang, patterns, text)
       IN IF parse_results = <<>>
          THEN [result |-> Ok(<<>>), ran |-> {"parser"}, now |-> now]
          ELSE [result |->
                  combine(combiner_language,
                          SlotsOf(_remove_overlapping_matches(SortByStart(parse_results))),
                          now),
                ran |-> {"parser", "resolver", "combiner"}, now |-> now]

\* extractor.extract(text, now) of an extractor of language lang
extract(lang, patterns, text, now) ==
  ExtractCall(lang, patterns, lang, text, now, now).result

(***************************************************************************)
(* State                                                                   *)
(***************************************************************************)
VARIABLES
  extractor,  \* the TimeRangeExtractor instance: language, parser table, combiner
  call,       \* the extract / extract_time_range call in hand and its outcome
  threads,    \* calls running step by step on the shared instance
  arg,        \* the arguments of a direct call of merge_with / combine / the resolver
  ret         \* what that direct call returned

vars == <<extractor, call, threads, arg, ret>>

(***************************************************************************)
(* Inputs                                                                  *)
(***************************************************************************)
Now_Thu == DT(2026, 2, 12, 11, 30, 0)
Now_LeapDay == DT(2024, 2, 29, 8, 5, 9)
Now_YearEnd == DT(2025, 12, 31, 23, 59, 59)
Nows == {Now_Thu, Now_LeapDay, Now_YearEnd}

\* what datetime.datetime.now() may read
ClockNows == {Now_Thu}

Sel_zh == <<"z", "h">>
Sel_en == <<"e", "n">>
Sel_fr == <<"f", "r">>
Selectors == {Sel_zh, Sel_en, Sel_fr}

\* str(n) of a non-negative int
DigitChars == <<"0", "1", "2", "3", "4", "5", "6", "7", "8", "9">>
RECURSIVE DecimalText(_)
DecimalText(n) ==
  IF n < 10 THEN <<DigitChars[n + 1]>>
  ELSE DecimalText(n \div 10) \o <<DigitChars[(n % 10) + 1]>>

T_empty == <<>>
T_no_time == <<"wo">>
T_month13 == <<"1", "3", "yue">>
T_feb31 == <<"2", "yue", "3", "1", "ri">>
T_apr31 == <<"4", "yue", "3", "1", "hao">>
T_hour25 == <<"2", "5", "dian">>
T_clock2500 == <<"2", "5", ":", "0", "0">>
T_inner100y == <<"1", "0", "0", "nian", "nei">>
T_year2500 == <<"2", "5", "0", "0", "nian">>
T_year1800 == <<"1", "8", "0", "0", "nian">>
T_near100y == <<"jin_near", "1", "0", "0", "nian">>
T_ago100y == <<"1", "0", "0", "nian", "qian">>
T_q2_2500 == <<"2", "5", "0", "0", "nian", "Q", "2", "ji", "du">>
T_yesterday_zh == <<"zuo", "tian">>
T_tomorrow_pm3 == <<"ming", "tian", "xia", "wu_noon", "3", "dian">>
T_ago3_zh == <<"3", "tian", "qian">>
T_yesterday_en == <<"y", "e", "s", "t", "e", "r", "d", "a", "y">>
T_ago3_en == <<"3", " ", "d", "a", "y", "s", " ", "a", "g", "o">>
T_june31_en == <<"J", "u", "n", "e", " ", "3", "1">>
T_this_quarter == <<"ben", "ji">>
T_this_quarter_du == <<"ben", "ji", "du">>
T_second_quarter == <<"di", "er", "ji", "du">>
T_near3_zh == <<"jin_near", "3", "tian">>
T_next_friday == <<"xia", "zhou", "wu_five">>
T_year_month == <<"2", "0", "2", "6", "nian", "3", "yue">>
T_year2026 == <<"2", "0", "2", "6", "nian">>
T_month3 == <<"3", "yue">>
T_ago23_zh == <<"er", "shi_ten", "san", "tian", "qian">>
T_ago12_zh == <<"shi_ten", "er", "tian", "qian">>
T_ago2_zh == <<"liang", "tian", "qian">>
T_ago0_zh == <<"ling_zero", "tian", "qian">>
T_two_days_ago == <<"t", "w", "o", " ", "d", "a", "y", "s", " ", "a", "g", "o">>
T_ago3_this_year == <<"3", "tian", "qian", "jin_now", "nian">>
T_this_year_ago3 == <<"jin_now", "nian", "3", "tian", "qian">>
T_tomorrow_9_to_17 == <<"ming", "tian", "9", "dian", "dao", "1", "7", "dian">>

MainTexts ==
  {NoneSeq, T_empty, T_no_time, T_month13, T_feb31, T_apr31, T_hour25, T_clock2500,
   T_inner100y, T_year2500, T_year1800, T_near100y, T_ago100y, T_q2_2500,
   T_yesterday_zh, T_tomorrow_pm3, T_ago3_zh, T_yesterday_en, T_ago3_en, T_june31_en,
   T_this_quarter, T_this_quarter_du, T_second_quarter}

(***************************************************************************)
(* TimeRangeExtractor.__init__                                             *)
(***************************************************************************)
\* self.language = Language.CHINESE if language == 'zh' else Language.ENGLISH
LanguageOf(selector) == IF selector = Sel_zh THEN CHINESE ELSE ENGLISH

\* self.patterns is held in the state by the names of its rules, in table order
RuleNames(patterns) == [i \in 1..Len(patterns) |-> patterns[i].name]

\* the compiled rules behind a list of rule names
TableOf(lang, names) ==
  [i \in 1..Len(names) |->
     CHOOSE rule \in {PatternsOf(lang)[k] : k \in 1..Len(PatternsOf(lang))} :
       rule.name = names[i]]

\* the instance __init__ leaves behind: it has no raising path
TimeRangeExtractor(selector) ==
  [built |-> TRUE, selector |-> selector, raised |-> "none",
   language |-> LanguageOf(selector),
   patterns |-> RuleNames(PatternsOf(LanguageOf(selector))),
   combiner |-> [language |-> LanguageOf(selector)]]

NoExtractor ==
  [built |-> FALSE, selector |-> NoneSeq, raised |-> "none", language |-> "none",
   patterns |-> <<>>, combiner |-> [language |-> "none"]]

\* extract on an instance: the parser's table and the combiner's language are
\* read from the instance; now=None reads the clock once the text is not empty
ExtractOn(inst, text, now_arg, clock) ==
  ExtractCall(inst.language, TableOf(inst.language, inst.patterns),
              inst.combiner.language, text,
              now_arg, clock)

NoCall ==
  [op |-> "none", pc |-> "idle", selector |-> NoneSeq, language |-> "none",
   text |-> NoneSeq, now_arg |-> NoneDT, now |-> NoneDT,
   result |-> Ok(<<>>), ran |-> {}]

NoArg == [fn |-> "none"]
NoRet == [done |-> FALSE]

(***************************************************************************)
(* Operations on the extractor                                             *)
(***************************************************************************)
\* extractor = TimeRangeExtractor(language=selector)
Construct(selectors) ==
  /\ ~extractor.built
  /\ \E selector \in selectors : extractor' = TimeRangeExtractor(selector)
  /\ UNCHANGED <<call, threads, arg, ret>>

\* a caller invokes extractor.extract(text, now)
CallExtract(texts, nows) ==
  /\ extractor.built
  /\ call.pc # "called"
  /\ \E text \in texts, now_arg \in nows \cup {NoneDT} :
       call' = [NoCall EXCEPT !.op = "extract", !.pc = "called",
                              !.selector = extractor.selector,
                              !.language = extractor.language,
                              !.text = text, !.now_arg = now_arg]
  /\ UNCHANGED <<extractor, threads, arg, ret>>

\* the body of TimeRangeExtractor.extract, from entry to return (or raise)
Extract ==
  /\ call.pc = "called" /\ call.op = "extract"
  /\ \E clock \in ClockNows :
       LET out == ExtractOn(extractor, call.text, call.now_arg, clock)
       IN call' = [call EXCEPT !.pc = "returned", !.now = out.now,
                               !.result = out.result, !.ran = out.ran]
  /\ UNCHANGED <<extractor, threads, arg, ret>>

\* a caller invokes extract_time_range(text, now, language=selector)
CallShortcut(texts, nows, selectors) ==
  /\ call.pc # "called"
  /\ \E text \in texts, now_arg \in nows \cup {NoneDT}, selector \in selectors :
       call' = [NoCall EXCEPT !.op = "extract_time_range", !.pc = "called",
                              !.selector = selector,
                              !.language = LanguageOf(selector),
                              !.text = text, !.now_arg = now_arg]
  /\ UNCHANGED <<extractor, threads, arg, ret>>

\* the body of extract_time_range: a fresh instance, then its extract
ExtractTimeRange ==
  /\ call.pc = "called" /\ call.op = "extract_time_range"
  /\ \E clock \in ClockNows :
       LET out == ExtractOn(TimeRangeExtractor(call.selector), call.text,
                            call.now_arg, clock)
       IN call' = [call EXCEPT !.pc = "returned", !.now = out.now,
                               !.result = out.result, !.ran = out.ran]
  /\ UNCHANGED <<extractor, threads, arg, ret>>

(***************************************************************************)
(* Calls of extract running concurrently on one shared instance.  A call   *)
(* is cut where it reads the instance: the parser's table (parse) and the  *)
(* combiner (combine); what lies between works on the call's own list.     *)
(***************************************************************************)
MaxThreads == 2
ThreadIds == 1..MaxThreads

ConcTexts == {T_empty, T_ago3_zh, T_ago3_en}
ConcNows == {Now_Thu}

IdleThread ==
  [pc |-> "idle", text |-> NoneSeq, now |-> NoneDT, parse_results |-> <<>>,
   result |-> Ok(<<>>)]

\* thread t enters extractor.extract(text, now)
ThreadCall(t) ==
  /\ extractor.built
  /\ threads[t].pc \in {"idle", "returned"}
  /\ \E text \in ConcTexts, now \in ConcNows :
       threads' = [threads EXCEPT ![t] =
                     [IdleThread EXCEPT !.pc = "called", !.text = text, !.now = now]]
  /\ UNCHANGED <<extractor, call, arg, ret>>

\* a parse that uses up the shared table: each call drops the rule it read first
ThreadParse_Consuming(t) ==
  /\ threads[t].pc = "called"
  /\ LET th == threads[t]
         parse_results == parse(extractor.language,
                                TableOf(extractor.language, extractor.patterns),
                                th.text)
     IN threads' = [threads EXCEPT ![t] =
          IF ~NonEmpty(th.text) THEN [th EXCEPT !.pc = "returned", !.result = Ok(<<>>)]
          ELSE IF parse_results = <<>>
            THEN [th EXCEPT !.pc = "returned", !.result = Ok(<<>>)]
          ELSE [th EXCEPT !.pc = "parsed", !.parse_results = parse_results]]
  /\ extractor' = [extractor EXCEPT !.patterns =
                     IF @ = <<>> THEN @ ELSE Tail(@)]
  /\ UNCHANGED <<call, arg, ret>>

\* the empty-text return, self.parser.parse(text), the no-match return
ThreadParse(t) ==
  /\ threads[t].pc = "called"
  /\ LET th == threads[t]
         parse_results == parse(extractor.language,
                                TableOf(extractor.language, extractor.patterns),
                                th.text)
     IN threads' = [threads EXCEPT ![t] =
          IF ~NonEmpty(th.text) THEN [th EXCEPT !.pc = "returned", !.result = Ok(<<>>)]
          ELSE IF parse_results = <<>>
            THEN [th EXCEPT !.pc = "returned", !.result = Ok(<<>>)]
          ELSE [th EXCEPT !.pc = "parsed", !.parse_results = parse_results]]
  /\ UNCHANGED <<extractor, call, arg, ret>>

\* parse_results.sort(...); parse_results = self._remove_overlapping_matches(...)
ThreadResolve(t) ==
  /\ threads[t].pc = "parsed"
  /\ threads' = [threads EXCEPT ![t] =
                   [@ EXCEPT !.pc = "resolved",
                             !.parse_results =
                               _remove_overlapping_matches(SortByStart(@))]]
  /\ UNCHANGED <<extractor, call, arg, ret>>

\* return self.combiner.combine(slots, now)
ThreadCombine(t) ==
  /\ threads[t].pc = "resolved"
  /\ threads' = [threads EXCEPT ![t] =
                   [@ EXCEPT !.pc = "returned",
                             !.result = combine(extractor.combiner.language,
                                                SlotsOf(threads[t].parse_results),
                                                threads[t].now)]]
  /\ UNCHANGED <<extractor, call, arg, ret>>

(***************************************************************************)
(* Direct calls of the resolver, of merge_with and of combine              *)
(***************************************************************************)
MaxMatches == 3
MaxPos == 3

\* spans of matches in a text of MaxPos characters
Spans == {sp \in (0..MaxPos) \X (0..MaxPos) : sp[1] < sp[2]}

\* the match a rule of the Chinese table reports over a span; the i-th match
\* of a list comes from the i-th rule, so no two matches of a list are equal
MatchOf(i, sp) ==
  ParseResult(ZhPatterns[i].slot_type, TimeSlot, <<>>, ZhPatterns[i].name, sp[1], sp[2])

SpanLists == UNION {[1..n -> Spans] : n \in 0..MaxMatches}
MatchLists == {[i \in 1..Len(sl) |-> MatchOf(i, sl[i])] : sl \in SpanLists}

\* self._remove_overlapping_matches(results), called on a list as it is
Resolve ==
  /\ arg.fn = "resolve" /\ ~ret.done
  /\ ret' = [done |-> TRUE, presorted |-> FALSE,
             val |-> _remove_overlapping_matches(arg.results)]
  /\ UNCHANGED <<extractor, call, threads, arg>>

\* the two statements of extract: sort by start_pos, then resolve
SortAndResolve ==
  /\ arg.fn = "resolve" /\ ~ret.done
  /\ ret' = [done |-> TRUE, presorted |-> TRUE,
             val |-> _remove_overlapping_matches(SortByStart(arg.results))]
  /\ UNCHANGED <<extractor, call, threads, arg>>

\* slots for merge_with: everything set, everything set to a zero or empty
\* value, other values, the defaults, and each field set on its own
SlotAllSet ==
  [year |-> 2026, month |-> 2, day |-> 12, hour |-> 11, minute |-> 30, second |-> 5,
   weekday |-> 3, quarter |-> 1, period |-> <<"xia", "wu_noon">>,
   offset_value |-> 3, offset_unit |-> <<"tian">>, offset_type |-> AGO,
   is_range_start |-> TRUE, is_range_end |-> TRUE,
   relative_day |-> <<"ming", "tian">>, week_offset |-> 1, confidence |-> 90]

SlotZeros ==
  [year |-> 0, month |-> 0, day |-> 0, hour |-> 0, minute |-> 0, second |-> 0,
   weekday |-> 0, quarter |-> 0, period |-> <<>>,
   offset_value |-> 0, offset_unit |-> <<>>, offset_type |-> NONE,
   is_range_start |-> FALSE, is_range_end |-> FALSE,
   relative_day |-> <<>>, week_offset |-> 0, confidence |-> 0]

SlotOther ==
  [year |-> 1999, month |-> 12, day |-> 31, hour |-> 23, minute |-> 59, second |-> 59,
   weekday |-> 6, quarter |-> 4, period |-> <<"wan", "shang">>,
   offset_value |-> 100, offset_unit |-> <<"nian">>, offset_type |-> NEAR,
   is_range_start |-> TRUE, is_range_end |-> FALSE,
   relative_day |-> <<"jin_now", "nian">>, week_offset |-> -1, confidence |-> 100]

SlotFields == DOMAIN TimeSlot

MergeSlots ==
  {TimeSlot, SlotAllSet, SlotZeros, SlotOther}
    \cup {[TimeSlot EXCEPT ![f] = SlotAllSet[f]] : f \in SlotFields}
    \cup {[TimeSlot EXCEPT ![f] = SlotZeros[f]] : f \in SlotFields}

\* merged = self.merge_with(other); the operands stay in arg
Merge ==
  /\ arg.fn = "merge_with" /\ ~ret.done
  /\ ret' = [done |-> TRUE, val |-> merge_with(arg.self, arg.other)]
  /\ UNCHANGED <<extractor, call, threads, arg>>

\* slots as the rules of a language fill them
UnitDay(lang) == IF lang = CHINESE THEN <<"tian">> ELSE U_day
UnitHour(lang) == IF lang = CHINESE THEN <<"xiao", "shi_hour">> ELSE U_hour
UnitYear(lang) == IF lang = CHINESE THEN <<"nian">> ELSE U_year
TokenTomorrow(lang) == IF lang = CHINESE THEN <<"ming", "tian">> ELSE W_tomorrow
TokenThisYear(lang) == IF lang = CHINESE THEN <<"jin_now", "nian">> ELSE W_this_year
TokenAfternoon(lang) ==
  IF lang = CHINESE THEN <<"xia", "wu_noon">>
  ELSE <<"a", "f", "t", "e", "r", "n", "o", "o", "n">>

CombineSlots(lang) ==
  {[TimeSlot EXCEPT !.offset_value = 3, !.offset_unit = UnitDay(lang), !.offset_type = AGO],
   [TimeSlot EXCEPT !.offset_value = 3, !.offset_unit = UnitHour(lang),
                    !.offset_type = INNER],
   [TimeSlot EXCEPT !.offset_value = 5],
   [TimeSlot EXCEPT !.relative_day = TokenTomorrow(lang)],
   [TimeSlot EXCEPT !.relative_day = TokenThisYear(lang), !.offset_value = 0,
                    !.offset_unit = UnitYear(lang)],
   [TimeSlot EXCEPT !.relative_day = <<"?">>],
   [TimeSlot EXCEPT !.quarter = 2],
   [TimeSlot EXCEPT !.weekday = 4],
   [TimeSlot EXCEPT !.week_offset = 1],
   [TimeSlot EXCEPT !.weekday = 5, !.is_range_start = TRUE],
   [TimeSlot EXCEPT !.hour = 9, !.minute = 0, !.second = 17, !.is_range_start = TRUE],
   [TimeSlot EXCEPT !.year = 2025],
   [TimeSlot EXCEPT !.month = 13],
   [TimeSlot EXCEPT !.hour = 15, !.minute = 0],
   [TimeSlot EXCEPT !.period = TokenAfternoon(lang)]}

MaxSlots == 2
SlotLists(lang) == UNION {[1..n -> CombineSlots(lang)] : n \in 0..MaxSlots}
CombineNows == {Now_Thu, Now_YearEnd}

\* self.combine(slots, now) of a combiner of language arg.lang
Combine ==
  /\ arg.fn = "combine" /\ ~ret.done
  /\ ret' = [done |-> TRUE, val |-> combine(arg.lang, arg.slots, arg.now)]
  /\ UNCHANGED <<extractor, call, threads, arg>>

(***************************************************************************)
(* Specifications                                                          *)
(***************************************************************************)
ShortcutTexts == {NoneSeq, T_month13, T_yesterday_zh, T_yesterday_en}
ShortcutNows == {Now_Thu}

Init ==
  /\ extractor = NoExtractor
  /\ call = NoCall
  /\ threads = <<>>
  /\ arg = NoArg
  /\ ret = NoRet

Next ==
  \/ Construct(Selectors)
  \/ CallExtract(MainTexts, Nows)
  \/ Extract
  \/ CallShortcut(ShortcutTexts, ShortcutNows, Selectors)
  \/ ExtractTimeRange

Spec == Init /\ [][Next]_vars

InitConc ==
  /\ extractor = NoExtractor
  /\ call = NoCall
  /\ threads = [t \in ThreadIds |-> IdleThread]
  /\ arg = NoArg
  /\ ret = NoRet

NextConc ==
  \/ Construct({Sel_zh, Sel_en})
  \/ \E t \in ThreadIds :
       ThreadCall(t) \/ ThreadParse(t) \/ ThreadResolve(t) \/ ThreadCombine(t)

SpecConc == InitConc /\ [][NextConc]_vars

InitResolve ==
  /\ extractor = NoExtractor
  /\ call = NoCall
  /\ threads = <<>>
  /\ arg \in {[fn |-> "resolve", results |-> ml] : ml \in MatchLists}
  /\ ret = NoRet

NextResolve == Resolve \/ SortAndResolve

SpecResolve == InitResolve /\ [][NextResolve]_vars

InitMerge ==
  /\ extractor = NoExtractor
  /\ call = NoCall
  /\ threads = <<>>
  /\ arg \in {[fn |-> "merge_with", self |-> s, other |-> o] :
                s \in MergeSlots, o \in MergeSlots}
  /\ ret = NoRet

NextMerge == Merge

SpecMerge == InitMerge /\ [][NextMerge]_vars

InitCombine ==
  /\ extractor = NoExtractor
  /\ call = NoCall
  /\ threads = <<>>
  /\ arg \in UNION {{[fn |-> "combine", lang |-> lang, slots |-> sl, now |-> now] :
                       sl \in SlotLists(lang), now \in CombineNows} :
                    lang \in {CHINESE, ENGLISH}}
  /\ ret = NoRet

NextCombine == Combine

SpecCombine == InitCombine /\ [][NextCombine]_vars

(***************************************************************************)
(* Day offsets written with a decimal count                                *)
(***************************************************************************)
MaxSmallDays == 1
ClampMargin == 1
DayCounts == (0..MaxSmallDays) \cup ((100 - ClampMargin)..(100 + ClampMargin)) \cup {1000}

DayForms == {"zh_ago", "zh_after", "en_ago", "en_after"}
FormLanguage(form) == IF form \in {"zh_ago", "zh_after"} THEN CHINESE ELSE ENGLISH
FormSign(form) == IF form \in {"zh_ago", "en_ago"} THEN -1 ELSE 1

\* N tian qian / N tian hou (U+5929 U+524D / U+5929 U+540E), N days ago / N days later
DayOffsetText(form, n) ==
  DecimalText(n) \o
    CASE form = "zh_ago" -> <<"tian", "qian">>
      [] form = "zh_after" -> <<"tian", "hou">>
      [] form = "en_ago" -> <<" ", "d", "a", "y", "s", " ", "a", "g", "o">>
      [] form = "en_after" -> <<" ", "d", "a", "y", "s", " ", "l", "a", "t", "e", "r">>

ClampTexts ==
  {NoneSeq, T_no_time} \cup {DayOffsetText(form, n) : form \in DayForms, n \in DayCounts}
ClampNows == {Now_Thu, Now_YearEnd}
ClampSelectors == {Sel_zh, Sel_en}

NextClamp ==
  \/ Construct(ClampSelectors)
  \/ CallExtract(ClampTexts, ClampNows)
  \/ Extract
  \/ CallShortcut({NoneSeq, DayOffsetText("zh_ago", 100 + ClampMargin)}, {Now_LeapDay},
                  ClampSelectors)
  \/ ExtractTimeRange

SpecClamp == Init /\ [][NextClamp]_vars

(***************************************************************************)
(* Direct calls of combine on the calendar branches: relative days,        *)
(* periods, clock hours, weekdays, weeks, and week / month / hour /        *)
(* minute / quarter offsets, over nows on every weekday and at month,      *)
(* quarter and year boundaries                                             *)
(***************************************************************************)
\* slots as the rules fill them
RelativeDaySlot(token) == [TimeSlot EXCEPT !.relative_day = token]
PeriodSlot(period) == [TimeSlot EXCEPT !.period = period]
HourSlot(hour, minute) == [TimeSlot EXCEPT !.hour = hour, !.minute = minute]
DateSlot(month, day) == [TimeSlot EXCEPT !.month = month, !.day = day]
QuarterSlot(year, quarter) == [TimeSlot EXCEPT !.year = year, !.quarter = quarter]
WeekdaySlot(wd, week_offset, is_range_start) ==
  [TimeSlot EXCEPT !.weekday = wd, !.week_offset = week_offset,
                   !.is_range_start = is_range_start]
OffsetSlot(value, unit, offset_type) ==
  [TimeSlot EXCEPT !.offset_value = value, !.offset_unit = unit,
                   !.offset_type = offset_type]

DayTokens(lang) == IF lang = CHINESE THEN DOMAIN day_offset_zh ELSE DOMAIN day_offset_en
Periods(lang) == DOMAIN TIME_PERIOD_MAP(lang)

\* the unit names the rules of a language store in offset_unit
UnitWeek(lang) == IF lang = CHINESE THEN <<"zhou">> ELSE U_week
UnitMonth(lang) == IF lang = CHINESE THEN <<"yue">> ELSE U_month
UnitMinute(lang) == IF lang = CHINESE THEN <<"fen", "zhong_clock">> ELSE U_minute
UnitQuarter(lang) == IF lang = CHINESE THEN <<"ji", "du">> ELSE U_quarter

\* counts of an offset: around both ends of [1, 100] and of [1, 1440]
OffsetCounts == {0, 1, 2, 5, 12, 100, 101, 200, 1440, 1441}
\* hours of the clock on both sides of 12, and the minute left unset or set
ClockHours == {0, 3, 11, 12, 15, 23}
ClockMinutes == {None, 30}
MaxWeekOffset == 2
WeekOffsets == (-MaxWeekOffset)..MaxWeekOffset

CalendarLists(lang) ==
  {<<RelativeDaySlot(t)>> : t \in DayTokens(lang)}
    \cup {<<RelativeDaySlot(t), PeriodSlot(p)>> : t \in DayTokens(lang), p \in Periods(lang)}
    \cup {<<PeriodSlot(p)>> : p \in Periods(lang)}
    \cup {<<DateSlot(3, 1), PeriodSlot(p)>> : p \in Periods(lang)}
    \cup {<<RelativeDaySlot(TokenTomorrow(lang)), PeriodSlot(p), HourSlot(h, mi)>> :
            p \in Periods(lang), h \in ClockHours, mi \in ClockMinutes}
    \cup {<<PeriodSlot(p), HourSlot(h, mi)>> :
            p \in Periods(lang), h \in ClockHours, mi \in ClockMinutes}
    \cup {<<QuarterSlot(y, q)>> : y \in {None, 2025}, q \in 0..4}
    \cup {<<WeekdaySlot(wd, wo, st)>> :
            wd \in {None} \cup (0..6), wo \in WeekOffsets, st \in BOOLEAN}
    \cup {<<OffsetSlot(n, u, k)>> :
            n \in OffsetCounts,
            u \in {UnitWeek(lang), UnitMonth(lang), UnitHour(lang), UnitMinute(lang),
                   UnitQuarter(lang)},
            k \in {AGO, AFTER}}

\* the seven days of one week, a leap day, the last second and the first
\* second of a year, month ends in each quarter, and a year within a
\* hundred months of MAX_YEAR
CalendarNows ==
  {DT(2026, 2, d, 11, 30, 0) : d \in 9..15}
    \cup {Now_LeapDay, Now_YearEnd, DT(2026, 1, 1, 0, 0, 0), DT(2025, 3, 31, 9, 0, 0),
          DT(2026, 5, 31, 23, 30, 0), DT(2026, 8, 30, 18, 45, 10),
          DT(2095, 1, 31, 6, 0, 0)}

InitCalendar ==
  /\ extractor = NoExtractor
  /\ call = NoCall
  /\ threads = <<>>
  /\ arg \in UNION {{[fn |-> "combine", lang |-> lang, slots |-> sl, now |-> now] :
                       sl \in CalendarLists(lang), now \in CalendarNows} :
                    lang \in {CHINESE, ENGLISH}}
  /\ ret = NoRet

NextCalendar == Combine

SpecCalendar == InitCalendar /\ [][NextCalendar]_vars

(***************************************************************************)
(* Direct calls of combine on offsets of every kind and unit and on        *)
(* explicit dates, over nows in the first and last years of                *)
(* [MIN_YEAR, MAX_YEAR] as well as in ordinary years                       *)
(***************************************************************************)
ExplicitDateSlot(year, month, day) ==
  [TimeSlot EXCEPT !.year = year, !.month = month, !.day = day]
MinuteSlot(minute) == [TimeSlot EXCEPT !.minute = minute]

\* counts of a ranged offset on both sides of [1, 100]
RangeCounts == {0, 1, 2, 3, 12, 100, 101}
RangeUnits(lang) ==
  {UnitDay(lang), UnitWeek(lang), UnitMonth(lang), UnitYear(lang), UnitHour(lang),
   UnitMinute(lang), UnitQuarter(lang)}
\* explicit years, months and days: unset, zero, and values that do and do
\* not make a date of the calendar
ExplicitYears == {None, 0, 2024, 2027}
ExplicitMonths == {None, 0, 2, 12}
ExplicitDays == {None, 0, 1, 29, 31}

RangesLists(lang) ==
  {<<OffsetSlot(n, u, k)>> :
     n \in RangeCounts, u \in RangeUnits(lang), k \in {AGO, AFTER, INNER, NEAR}}
    \cup {<<ExplicitDateSlot(y, mo, d)>> :
            y \in ExplicitYears, mo \in ExplicitMonths, d \in ExplicitDays}
    \cup {<<MinuteSlot(30)>>, <<ExplicitDateSlot(2024, None, None), DateSlot(2, 29)>>}
    \cup {<<RelativeDaySlot(t)>> : t \in DayTokens(lang)}
    \cup {<<PeriodSlot(p)>> : p \in Periods(lang)}
    \cup {<<WeekdaySlot(wd, wo, st)>> : wd \in {None, 0, 5}, wo \in {-1, 0, 1}, st \in BOOLEAN}
    \cup {<<QuarterSlot(None, q)>> : q \in 1..4}

\* an ordinary Thursday, a leap day, the last second of a year, and nows in
\* and near the first and the last year of [MIN_YEAR, MAX_YEAR]
RangesNows ==
  {Now_Thu, Now_LeapDay, Now_YearEnd, DT(2100, 11, 15, 8, 0, 0), DT(1900, 2, 10, 8, 0, 0),
   DT(2095, 1, 31, 6, 0, 0), DT(1905, 5, 31, 6, 0, 0)}

InitRanges ==
  /\ extractor = NoExtractor
  /\ call = NoCall
  /\ threads = <<>>
  /\ arg \in UNION {{[fn |-> "combine", lang |-> lang, slots |-> sl, now |-> now] :
                       sl \in RangesLists(lang), now \in RangesNows} :
                    lang \in {CHINESE, ENGLISH}}
  /\ ret = NoRet

NextRanges == Combine

SpecRanges == InitRanges /\ [][NextRanges]_vars

(***************************************************************************)
(* TimeRangeExtractor.extract_all: one entry per parser match, each with   *)
(* the range of its slot alone                                             *)
(***************************************************************************)
\* the dict appended for one parse result
AllEntry(r, time_range) ==
  [matched_text |-> r.matched_text, pattern_name |-> r.pattern_name,
   slot_type |-> r.slot_type, start_pos |-> r.start_pos, end_pos |-> r.end_pos,
   time_range |-> time_range]

\* for r in parse_results: results.append({...}); an exception of combine
\* leaves the loop and the call
RECURSIVE AllEntries(_, _, _, _)
AllEntries(combiner_language, parse_results, now, results) ==
  IF parse_results = <<>> THEN Ok(results)
  ELSE LET r == Head(parse_results)
           range == combine(combiner_language, <<r.slot>>, now)
       IN IF range.exc # "none" THEN Raise(range.exc)
          ELSE AllEntries(combiner_language, Tail(parse_results), now,
                          Append(results, AllEntry(r, range.val)))

\* the same over the matches the overlap resolver keeps
ExtractAllCall_Resolved(lang, patterns, combiner_language, text, now_arg, clock) ==
  IF ~NonEmpty(text) THEN [result |-> Ok(<<>>), now |-> now_arg]
  ELSE LET now == IF now_arg = NoneDT THEN clock ELSE now_arg
       IN [result |->
             AllEntries(combiner_language,
                        _remove_overlapping_matches(SortByStart(parse(lang, patterns, text))),
                        now, <<>>),
           now |-> now]

\* self.extract_all(text, now)
ExtractAllCall(lang, patterns, combiner_language, text, now_arg, clock) ==
  IF ~NonEmpty(text) THEN [result |-> Ok(<<>>), now |-> now_arg]
  ELSE LET now == IF now_arg = NoneDT THEN clock ELSE now_arg
       IN [result |-> AllEntries(combiner_language, parse(lang, patterns, text), now, <<>>),
           now |-> now]

CallExtractAll(texts, nows) ==
  /\ extractor.built
  /\ call.pc # "called"
  /\ \E text \in texts, now_arg \in nows \cup {NoneDT} :
       call' = [NoCall EXCEPT !.op = "extract_all", !.pc = "called",
                              !.selector = extractor.selector,
                              !.language = extractor.language,
                              !.text = text, !.now_arg = now_arg]
  /\ UNCHANGED <<extractor, threads, arg, ret>>

ExtractAll ==
  /\ call.pc = "called" /\ call.op = "extract_all"
  /\ \E clock \in ClockNows :
       LET out == ExtractAllCall(extractor.language,
                                 TableOf(extractor.language, extractor.patterns),
                                 extractor.combiner.language, call.text,
                                 call.now_arg, clock)
       IN call' = [call EXCEPT !.pc = "returned", !.now = out.now,
                               !.result = out.result]
  /\ UNCHANGED <<extractor, threads, arg, ret>>

\* texts with nested matches, with matches side by side, with one match,
\* with none, and with a match whose slot alone is no date
AllTexts ==
  {NoneSeq, T_empty, T_no_time, T_month13, T_yesterday_zh, T_tomorrow_pm3, T_ago3_zh,
   T_near3_zh, T_next_friday, T_year_month, T_yesterday_en, T_ago3_en, T_this_quarter_du,
   T_second_quarter}

NextAll ==
  \/ Construct(Selectors)
  \/ CallExtractAll(AllTexts, Nows)
  \/ ExtractAll

SpecAll == Init /\ [][NextAll]_vars

(***************************************************************************)
(* Direct calls of SlotParserBase.parse on the parsers of both languages   *)
(***************************************************************************)
\* self.parser.parse(text) of a parser of language arg.lang
Parse ==
  /\ arg.fn = "parse" /\ ~ret.done
  /\ ret' = [done |-> TRUE, val |-> parse(arg.lang, PatternsOf(arg.lang), arg.text)]
  /\ UNCHANGED <<extractor, call, threads, arg>>

\* counts written in digits, on both sides of [1, 1000]
ParseCounts == {0, 1, 23, 1000, 1001}
ZhUnits == {<<"tian">>, <<"zhou">>, <<"ge", "yue">>, <<"nian">>}
ZhHourMinute == {<<"xiao", "shi_hour">>, <<"fen", "zhong_clock">>}
ZhSuffixes == {<<"qian">>, <<"hou">>, <<"nei">>, <<>>}
EnOffsetTails ==
  {<<" ", "d", "a", "y", "s", " ", "a", "g", "o">>,
   <<" ", "w", "e", "e", "k", "s", " ", "l", "a", "t", "e", "r">>,
   <<" ", "h", "o", "u", "r", "s", " ", "a", "g", "o">>}

\* offsets of every kind and unit with a count in digits, offsets with a
\* count in numerals, and texts of the other rules
ParseTexts ==
  {DecimalText(n) \o u \o sfx : n \in ParseCounts, u \in ZhUnits, sfx \in ZhSuffixes}
    \cup {<<"jin_near">> \o DecimalText(n) \o u : n \in ParseCounts, u \in ZhUnits}
    \cup {DecimalText(n) \o u \o sfx :
            n \in ParseCounts, u \in ZhHourMinute, sfx \in {<<"qian">>, <<"hou">>}}
    \cup {DecimalText(n) \o tail : n \in ParseCounts, tail \in EnOffsetTails}
    \cup {T_ago23_zh, T_ago12_zh, T_ago2_zh, T_ago0_zh, T_two_days_ago,
          T_ago3_this_year, T_this_year_ago3, T_tomorrow_9_to_17,
          T_year2026, T_month3, T_year_month, T_near3_zh, T_next_friday,
          T_tomorrow_pm3, T_yesterday_zh, T_yesterday_en, T_this_quarter_du,
          T_second_quarter, T_no_time, T_empty}

InitParse ==
  /\ extractor = NoExtractor
  /\ call = NoCall
  /\ threads = <<>>
  /\ arg \in {[fn |-> "parse", lang |-> lang, text |-> text] :
                lang \in {CHINESE, ENGLISH}, text \in ParseTexts}
  /\ ret = NoRet

NextParse == Parse

SpecParse == InitParse /\ [][NextParse]_vars

(***************************************************************************)
(* Direct calls of TimeSlot.has_date and TimeSlot.has_offset               *)
(***************************************************************************)
\* slot.has_date()
HasDate ==
  /\ arg.fn = "has_date" /\ ~ret.done
  /\ ret' = [done |-> TRUE, val |-> has_date(arg.slot)]
  /\ UNCHANGED <<extractor, call, threads, arg>>

\* slot.has_offset()
HasOffset ==
  /\ arg.fn = "has_offset" /\ ~ret.done
  /\ ret' = [done |-> TRUE, val |-> has_offset(arg.slot)]
  /\ UNCHANGED <<extractor, call, threads, arg>>

\* slots with one field set, over the field's whole domain where it is
\* small; slots with an offset kind and count set and unset; and slots with
\* several fields set
PredicateSlots ==
  {TimeSlot, SlotAllSet, SlotOther}
    \cup {[TimeSlot EXCEPT !.year = y] : y \in {1900, 2026}}
    \cup {[TimeSlot EXCEPT !.month = mo] : mo \in 1..12}
    \cup {[TimeSlot EXCEPT !.day = d] : d \in {1, 15, 31}}
    \cup {[TimeSlot EXCEPT !.weekday = wd] : wd \in 0..6}
    \cup {[TimeSlot EXCEPT !.quarter = q] : q \in 0..4}
    \cup {RelativeDaySlot(t) : t \in DayTokens(CHINESE) \cup DayTokens(ENGLISH)}
    \cup {HourSlot(h, mi) : h \in {None, 0, 10}, mi \in {None, 0, 30}}
    \cup {[TimeSlot EXCEPT !.second = 0]}
    \cup {PeriodSlot(p) : p \in Periods(CHINESE)}
    \cup {[OffsetSlot(n, UnitDay(CHINESE), k) EXCEPT !.weekday = wd] :
            n \in {None, 0, 3}, k \in {NONE, AGO, AFTER, INNER, NEAR}, wd \in {None, 0}}
    \cup {WeekdaySlot(wd, wo, st) : wd \in {None, 0}, wo \in {-1, 1}, st \in BOOLEAN}

InitSlot ==
  /\ extractor = NoExtractor
  /\ call = NoCall
  /\ threads = <<>>
  /\ arg \in {[fn |-> fn, slot |-> slot] :
                fn \in {"has_date", "has_offset"}, slot \in PredicateSlots}
  /\ ret = NoRet

NextSlot == HasDate \/ HasOffset

SpecSlot == InitSlot /\ [][NextSlot]_vars

(***************************************************************************)
(* Properties                                                              *)
(***************************************************************************)
Members(list) == {list[i] : i \in 1..Len(list)}

\* C1: every returned call of extract, whatever the text and now, returned a
\* list: no exception left it.  The code lets the ValueError of the datetime
\* constructor through (month 13, day 31 in a shorter month, hour 25).
C1_ExtractNeverRaises ==
  (call.pc = "returned") => (call.result.exc = "none")

\* C2: every timestamp of every result has its year within [1900, 2100].
\* The code leaves the years of an inner offset, of an explicit four-digit
\* year and of a quarter with an explicit year as computed.
C2_YearsWithinBounds ==
  (call.pc = "returned") =>
    \A i \in 1..Len(call.result.val) :
      call.result.val[i][1] >= MIN_YEAR /\ call.result.val[i][1] <= MAX_YEAR

\* C3: a language selector other than exactly "zh" or "en" makes the
\* construction fail, for the class and for the extract_time_range shortcut.
\* The code builds an English extractor for every selector that is not "zh".
C3_UnsupportedSelectorFails ==
  /\ (extractor.built /\ extractor.selector \notin {Sel_zh, Sel_en})
       => (extractor.raised # "none")
  /\ (call.pc = "returned" /\ call.op = "extract_time_range"
        /\ call.selector \notin {Sel_zh, Sel_en})
       => (call.result.exc # "none")

SpanOf(m) == <<m.start_pos, m.end_pos>>
Inside(a, b) == a.start_pos >= b.start_pos /\ a.end_pos <= b.end_pos

\* C4: the resolver returns exactly the input matches whose span is not
\* strictly inside the span of another input match, and of the matches with
\* one and the same such span exactly one; it adds and alters no match.
C4_ResolverKeepsMaximalSpans ==
  (ret.done /\ arg.fn = "resolve") =>
    LET in == Members(arg.results)
        out == Members(ret.val)
    IN /\ out \subseteq in
       /\ Cardinality(out) = Len(ret.val)
       /\ \A m \in in :
            IF \E o \in in : Inside(m, o) /\ SpanOf(o) # SpanOf(m)
            THEN m \notin out
            ELSE Cardinality({o \in out : SpanOf(o) = SpanOf(m)}) = 1

\* three matches, two of them over the same span and the third overlapping
\* them partly: one of the twins and the third survive
C4_Witness ==
  /\ ret.done /\ arg.fn = "resolve"
  /\ Len(arg.results) = 3 /\ Len(ret.val) = 2
  /\ SpanOf(arg.results[1]) = SpanOf(arg.results[2])
  /\ ~Inside(arg.results[3], arg.results[1])
  /\ ~Inside(arg.results[1], arg.results[3])
  /\ arg.results[3].start_pos < arg.results[1].end_pos
  /\ arg.results[1].start_pos < arg.results[3].end_pos

\* the list the resolver was given
ResolverInput == IF ret.presorted THEN SortByStart(arg.results) ELSE arg.results

IndexIn(list, m) == CHOOSE i \in 1..Len(list) : list[i] = m
KeepsOrderOf(in, out) ==
  \A i \in 1..Len(out), j \in 1..Len(out) :
    (i < j) => (IndexIn(in, out[i]) < IndexIn(in, out[j]))
AscendingStart(list) ==
  \A i \in 1..(Len(list) - 1) : list[i].start_pos <= list[i + 1].start_pos

\* C5 as stated: for any input list the survivors keep the relative order
\* they had in the input list, and the output is in ascending start offset.
C5_OrderPreservedForAnyInput ==
  (ret.done /\ arg.fn = "resolve") =>
    /\ KeepsOrderOf(ResolverInput, ret.val)
    /\ AscendingStart(ret.val)

\* C5 amended: the output is in ascending start offset for any input list;
\* the survivors keep their relative input order when the input list is in
\* ascending start offset, as the list extract passes always is.
C5_OrderPreservedForSortedInput ==
  (ret.done /\ arg.fn = "resolve") =>
    /\ AscendingStart(ret.val)
    /\ AscendingStart(ResolverInput) => KeepsOrderOf(ResolverInput, ret.val)
    /\ ret.presorted => AscendingStart(ResolverInput)

\* extract's sort put an unsorted list of three matches in order, the
\* resolver dropped one, and the two survivors are in ascending start offset
C5_Witness ==
  /\ ret.done /\ arg.fn = "resolve" /\ ret.presorted
  /\ ~AscendingStart(arg.results)
  /\ Len(arg.results) = 3 /\ Len(ret.val) = 2
  /\ ret.val[1].start_pos < ret.val[2].start_pos

NullableIntFields ==
  {"year", "month", "day", "hour", "minute", "second", "weekday", "quarter",
   "offset_value"}
NullableStrFields == {"period", "offset_unit", "relative_day"}

\* C6: in merge(base, incoming) every nullable field is incoming's when
\* incoming has it set (0 and the empty string count as set), else base's;
\* week_offset is incoming's when nonzero, else base's; the offset kind is
\* incoming's when not none, else base's; the range marks are ORed; the
\* confidence is the minimum.
C6_MergedFields ==
  (ret.done /\ arg.fn = "merge_with") =>
    LET base == arg.self
        incoming == arg.other
        merged == ret.val
    IN /\ \A f \in NullableIntFields :
            merged[f] = IF incoming[f] # None THEN incoming[f] ELSE base[f]
       /\ \A f \in NullableStrFields :
            merged[f] = IF incoming[f] # NoneSeq THEN incoming[f] ELSE base[f]
       /\ merged.week_offset =
            IF incoming.week_offset # 0 THEN incoming.week_offset ELSE base.week_offset
       /\ merged.offset_type =
            IF incoming.offset_type # NONE THEN incoming.offset_type ELSE base.offset_type
       /\ merged.is_range_start = (base.is_range_start \/ incoming.is_range_start)
       /\ merged.is_range_end = (base.is_range_end \/ incoming.is_range_end)
       /\ merged.confidence <= base.confidence
       /\ merged.confidence <= incoming.confidence
       /\ merged.confidence \in {base.confidence, incoming.confidence}

\* C6: merge(base, incoming) yields the slot described field by field at
\* C6_MergedFields, and no step of the merge changes either operand.
C6_MergeFieldByField == [](C6_MergedFields) /\ [][arg' = arg]_vars

\* incoming carries zeros and empty strings over a fully set base: they win
C6_Witness ==
  /\ ret.done /\ arg.fn = "merge_with"
  /\ arg.self = SlotAllSet /\ arg.other = SlotZeros
  /\ ret.val.year = 0 /\ ret.val.hour = 0 /\ ret.val.period = <<>>
  /\ ret.val.week_offset = 1 /\ ret.val.offset_type = AGO
  /\ ret.val.is_range_start /\ ret.val.confidence = 0

\* the aggregate: the slots folded from the left into the default slot
RECURSIVE Aggregate(_, _)
Aggregate(slots, k) ==
  IF k = 0 THEN TimeSlot ELSE merge_with(Aggregate(slots, k - 1), slots[k])

\* the position of the first branch whose precondition holds
FirstBranch(m) ==
  CHOOSE b \in 1..5 :
    /\ <<m.offset_type # NONE /\ m.offset_value # None,
         TruthyStr(m.relative_day),
         m.quarter # None,
         m.weekday # None \/ m.week_offset # 0 \/ m.is_range_start,
         TRUE>>[b]
    /\ \A a \in 1..(b - 1) :
         ~<<m.offset_type # NONE /\ m.offset_value # None,
            TruthyStr(m.relative_day),
            m.quarter # None,
            m.weekday # None \/ m.week_offset # 0 \/ m.is_range_start>>[a]

\* C7: combine folds the slots from the left into one aggregate and returns
\* the result of the first branch whose precondition holds, in the order
\* offset, relative day, quarter, weekday / week, specific date and time;
\* an empty list of that branch is returned as it is.
C7_FirstBranchDecides ==
  (ret.done /\ arg.fn = "combine" /\ arg.slots # <<>>) =>
    LET m == Aggregate(arg.slots, Len(arg.slots))
        b == FirstBranch(m)
    IN ret.val =
         CASE b = 1 -> _handle_offset(arg.lang, m, arg.now)
           [] b = 2 -> _handle_relative_day(arg.lang, m, arg.now)
           [] b = 3 -> _handle_quarter(m, arg.now)
           [] b = 4 -> _handle_weekday(m, arg.now)
           [] b = 5 -> _handle_specific_datetime(arg.lang, m, arg.now)

\* the offset branch is taken and returns the empty list although a weekday
\* is set as well, which the weekday branch would have resolved
C7_Witness ==
  /\ ret.done /\ arg.fn = "combine" /\ Len(arg.slots) = 2
  /\ LET m == Aggregate(arg.slots, 2)
     IN /\ has_offset(m) /\ m.weekday # None
        /\ ret.val = Ok(<<>>)
        /\ _handle_weekday(m, arg.now) # Ok(<<>>)

\* C8: a day offset written with the count N resolves, for N > 100, as the
\* same expression with 100 and, for N < 1, as the one with 1; for N from 1
\* to 100 it is the full-day range of the date N days before (ago) or after
\* (after, later) now.
C8_DayOffsetClamp ==
  \A form \in DayForms, n \in DayCounts :
    (/\ call.pc = "returned"
     /\ call.language = FormLanguage(form)
     /\ call.text = DayOffsetText(form, n)) =>
      LET lang == call.language
          d == AddDays(call.now, FormSign(form) * n)
      IN /\ (n >= 1 /\ n <= 100) =>
              call.result = Ok(<<FmtDayStart(d), FmtDayEnd(d)>>)
         /\ (n > 100) =>
              call.result = extract(lang, PatternsOf(lang), DayOffsetText(form, 100),
                                    call.now)
         /\ (n < 1) =>
              call.result = extract(lang, PatternsOf(lang), DayOffsetText(form, 1),
                                    call.now)

\* 101 days ago, in Chinese, came back as the day 100 days before now
C8_Witness ==
  /\ call.pc = "returned" /\ call.language = CHINESE
  /\ call.text = DayOffsetText("zh_ago", 101)
  /\ call.now = Now_Thu
  /\ call.result = Ok(<<<<2025, 11, 4, 0, 0, 0>>, <<2025, 11, 4, 23, 59, 59>>>>)

\* no rule of the language's table matches anywhere in the text
NoRuleMatches(lang, text) ==
  \A i \in 1..Len(PatternsOf(lang)) :
    finditer(PatternsOf(lang)[i].re, text, 0, PatternsOf(lang)[i].ic) = <<>>

\* C9: extract of an empty or missing text returns the empty list with
\* neither the parser nor the combiner run, with now given or left out and
\* in either language; a text no rule matches returns the empty list too.
C9_EmptyTextReturnsAtOnce ==
  (call.pc = "returned") =>
    /\ (call.text \in {NoneSeq, T_empty}) =>
         (call.result = Ok(<<>>) /\ call.ran = {})
    /\ (NonEmpty(call.text) /\ NoRuleMatches(call.language, call.text)) =>
         (call.result = Ok(<<>>) /\ "combiner" \notin call.ran)

\* extract(None) with now left out, on an English extractor
C9_Witness ==
  /\ call.pc = "returned" /\ call.op = "extract"
  /\ call.text = NoneSeq /\ call.now_arg = NoneDT /\ call.language = ENGLISH
  /\ call.result = Ok(<<>>)

\* C10: on one shared instance, every call that has returned, whatever the
\* other calls did in between, returned what a call alone on a fresh
\* extractor of that language returns for its text and now; the instance is
\* as its construction left it.
C10_SharedInstanceCallsAreIsolated ==
  extractor.built =>
    /\ extractor = TimeRangeExtractor(extractor.selector)
    /\ \A t \in DOMAIN threads :
         (threads[t].pc = "returned") =>
           threads[t].result =
             extract(extractor.language, PatternsOf(extractor.language),
                     threads[t].text, threads[t].now)

\* one call has returned a range while another is between parse and combine
C10_Witness ==
  /\ extractor.built /\ Len(threads) >= 2
  /\ threads[1].pc = "returned" /\ threads[1].result.val # <<>>
  /\ threads[2].pc = "parsed"

\* a finished call of combine on a list that is not empty, and the aggregate
\* slot its fold produced
Combined == ret.done /\ arg.fn = "combine" /\ arg.slots # <<>>
Agg == Aggregate(arg.slots, Len(arg.slots))

\* calendar dates <<year, month, day>> by day number, and the timestamps of
\* the first and last second of a date
DateOf(dt) == <<dt.year, dt.month, dt.day>>
DatePlus(date, k) == fromordinal(toordinal(date[1], date[2], date[3]) + k)
DayStart(date) == <<date[1], date[2], date[3], 0, 0, 0>>
DayEnd(date) == <<date[1], date[2], date[3], 23, 59, 59>>
FullDay(date) == Ok(<<DayStart(date), DayEnd(date)>>)

\* the fixed day offsets of the relative-day tokens
FixedDayOffset(lang) ==
  IF lang = CHINESE THEN
    (<<"da", "qian", "tian">> :> -3) @@ (<<"qian", "tian">> :> -2) @@
    (<<"zuo", "tian">> :> -1) @@ (<<"zuo", "ri">> :> -1) @@
    (<<"jin_now", "tian">> :> 0) @@ (<<"jin_now", "ri">> :> 0) @@
    (<<"dang", "tian">> :> 0) @@ (<<"ming", "tian">> :> 1) @@
    (<<"ming", "ri">> :> 1) @@ (<<"hou", "tian">> :> 2) @@
    (<<"da", "hou", "tian">> :> 3)
  ELSE
    (W_day_before_yesterday :> -2) @@ (W_yesterday :> -1) @@ (W_today :> 0) @@
    (W_tomorrow :> 1) @@ (W_day_after_tomorrow :> 2)

\* C11: an aggregate slot with a relative-day token of fixed day offset k,
\* no offset, no period and no hour resolves to [d 00:00:00, d 23:59:59],
\* d being the date k days from now's date, for every now.
C11_RelativeDayIsFullDay ==
  Combined =>
    \A token \in DOMAIN FixedDayOffset(arg.lang) :
      (/\ Agg.relative_day = token
       /\ Agg.offset_type = NONE \/ Agg.offset_value = None
       /\ Agg.period = NoneSeq
       /\ Agg.hour = None) =>
        ret.val = FullDay(DatePlus(DateOf(arg.now), FixedDayOffset(arg.lang)[token]))

\* three days after the last day of 2025 is 2026-01-03
C11_Witness ==
  /\ Combined /\ arg.lang = CHINESE /\ arg.now = Now_YearEnd
  /\ arg.slots = <<RelativeDaySlot(<<"da", "hou", "tian">>)>>
  /\ ret.val = Ok(<<<<2026, 1, 3, 0, 0, 0>>, <<2026, 1, 3, 23, 59, 59>>>>)

\* the branch an aggregate slot falls into: no offset and a relative-day
\* token of fixed day offset, or nothing but calendar and clock fields
NoOffset(m) == m.offset_type = NONE \/ m.offset_value = None
OnRelativeDay(lang, m) == NoOffset(m) /\ m.relative_day \in DOMAIN FixedDayOffset(lang)
OnFallback(m) ==
  /\ NoOffset(m) /\ m.relative_day \in {NoneSeq, <<>>} /\ m.quarter = None
  /\ m.weekday = None /\ m.week_offset = 0 /\ ~m.is_range_start

\* the date a time of day is resolved on: now's date shifted by the token's
\* days, or the slot's year, month and day with now's for the ones not set
TargetDate(lang, m, now) ==
  IF OnRelativeDay(lang, m)
  THEN DatePlus(DateOf(now), FixedDayOffset(lang)[m.relative_day])
  ELSE <<IF m.year \in {None, 0} THEN now.year ELSE m.year,
         IF m.month \in {None, 0} THEN now.month ELSE m.month,
         IF m.day \in {None, 0} THEN now.day ELSE m.day>>
IsDate(date) ==
  /\ date[1] \in MINYEAR..MAXYEAR /\ date[2] \in 1..12
  /\ date[3] \in 1..monthrange(date[1], date[2])

\* C12: with a known period and no explicit hour, in the relative-day branch
\* or the fallback branch, the result is a range of two on the target date:
\* the start is the period's start hour at minute precision (HH:00, no
\* seconds), the end is the period's end hour and end minute with second 59.
C12_PeriodRange ==
  Combined =>
    LET m == Agg
        date == TargetDate(arg.lang, m, arg.now)
    IN (/\ OnRelativeDay(arg.lang, m) \/ OnFallback(m)
        /\ IsDate(date)
        /\ m.period \in DOMAIN TIME_PERIOD_MAP(arg.lang)
        /\ m.hour = None) =>
         LET p == TIME_PERIOD_MAP(arg.lang)[m.period]
         IN ret.val = Ok(<<(<<date[1], date[2], date[3], p[1], 0>>),
                           (<<date[1], date[2], date[3], p[2], p[3], 59>>)>>)

\* ming tian xia wu (tomorrow afternoon) on Thursday 2026-02-12
C12_Witness ==
  /\ Combined /\ arg.lang = CHINESE /\ arg.now = Now_Thu
  /\ arg.slots = <<RelativeDaySlot(<<"ming", "tian">>), PeriodSlot(<<"xia", "wu_noon">>)>>
  /\ ret.val = Ok(<<(<<2026, 2, 13, 14, 0>>), (<<2026, 2, 13, 17, 59, 59>>)>>)

\* the hour of the 24-hour clock a period and a clock hour h stand for
PeriodHour(period, h) ==
  IF period \in {<<"xia", "wu_noon">>, <<"bang", "wan">>, <<"wan", "shang">>,
                 <<"a", "f", "t", "e", "r", "n", "o", "o", "n">>,
                 <<"e", "v", "e", "n", "i", "n", "g">>, <<"n", "i", "g", "h", "t">>}
     /\ h < 12
  THEN h + 12
  ELSE IF period \in {<<"zhong_mid", "wu_noon">>, <<"n", "o", "o", "n">>} /\ h = 0 THEN 12
  ELSE h

\* C13: with a known period and an explicit clock hour h (0..23), in the
\* relative-day branch or the fallback branch, the result is one timestamp
\* on the target date: hour h + 12 for an afternoon, evening or night period
\* and h < 12, hour 12 for noon and h = 0, hour h otherwise; the minute is
\* the slot's minute, 0 if it is not set, and the second is 0.
C13_PeriodWithHour ==
  Combined =>
    LET m == Agg
        date == TargetDate(arg.lang, m, arg.now)
    IN (/\ OnRelativeDay(arg.lang, m) \/ OnFallback(m)
        /\ IsDate(date)
        /\ m.period \in DOMAIN TIME_PERIOD_MAP(arg.lang)
        /\ m.hour \in 0..23
        /\ m.minute \in {None} \cup (0..59)) =>
         ret.val = Ok(<<(<<date[1], date[2], date[3], PeriodHour(m.period, m.hour),
                           IF m.minute = None THEN 0 ELSE m.minute, 0>>)>>)

\* ming tian xia wu 3 dian (tomorrow afternoon at 3) on Thursday 2026-02-12
C13_Witness ==
  /\ Combined /\ arg.lang = CHINESE /\ arg.now = Now_Thu
  /\ arg.slots = <<RelativeDaySlot(<<"ming", "tian">>), PeriodSlot(<<"xia", "wu_noon">>),
                   HourSlot(3, None)>>
  /\ ret.val = Ok(<<(<<2026, 2, 13, 15, 0, 0>>)>>)

\* the quarter holding a month, and the range of quarter q of year y: the
\* first second of its first month's first day to the last second of its
\* last month's last day
QuarterOfMonth(month) == ((month - 1) \div 3) + 1
QuarterRange(y, q) ==
  Ok(<<(<<y, 3 * q - 2, 1, 0, 0, 0>>),
       (<<y, 3 * q, monthrange(y, 3 * q), 23, 59, 59>>)>>)

\* C14: a current-quarter expression (ben ji, ben ji du; the slot carries
\* quarter = 0) resolves to the range of the quarter holding now's month in
\* now's year, and an explicit quarter (di er ji du, the second quarter)
\* with no year to that quarter of now's year.
C14_CurrentQuarterExpression ==
  (call.pc = "returned" /\ call.language = CHINESE) =>
    /\ (call.text \in {T_this_quarter, T_this_quarter_du}) =>
         call.result = QuarterRange(call.now.year, QuarterOfMonth(call.now.month))
    /\ (call.text = T_second_quarter) =>
         call.result = QuarterRange(call.now.year, 2)

\* C15: an offset whose unit is the quarter resolves to the range of the
\* quarter next to now's quarter: the one before for ago (the fourth quarter
\* of the year before when now is in a first quarter), the one after for
\* after (the first quarter of the next year when now is in a fourth).
C15_AdjacentQuarter ==
  Combined =>
    LET m == Agg
        step == IF m.offset_type = AGO THEN -1 ELSE 1
        index == 4 * arg.now.year + (QuarterOfMonth(arg.now.month) - 1) + step
    IN (/\ m.offset_type \in {AGO, AFTER}
        /\ m.offset_value # None
        /\ m.offset_unit = UnitQuarter(arg.lang)) =>
         ret.val = QuarterRange(index \div 4, (index % 4) + 1)

\* xia ji du (next quarter) on 2026-02-12 is April to June 2026
C15_Witness ==
  /\ Combined /\ arg.lang = CHINESE /\ arg.now = Now_Thu
  /\ arg.slots = <<OffsetSlot(1, <<"ji", "du">>, AFTER)>>
  /\ ret.val = Ok(<<(<<2026, 4, 1, 0, 0, 0>>), (<<2026, 6, 30, 23, 59, 59>>)>>)

\* the day of the week of a date, counted from a known Monday (2026-02-09),
\* Monday = 0, and the Monday of the week holding a date
WeekdayOfDate(date) == (toordinal(date[1], date[2], date[3]) - toordinal(2026, 2, 9)) % 7
MondayOf(date) == DatePlus(date, -WeekdayOfDate(date))

\* the weekday branch: no offset, no relative-day token, no quarter, and a
\* weekday, a week offset or the range-start flag
OnWeekday(m) ==
  /\ NoOffset(m) /\ m.relative_day \in {NoneSeq, <<>>} /\ m.quarter = None
  /\ m.weekday # None \/ m.week_offset # 0 \/ m.is_range_start
WeekendStart(m) == m.is_range_start /\ m.weekday = 5

\* C16: in the weekday branch with weekday w set, the weekend start aside,
\* the result is the full-day range of the Monday of now's week plus
\* 7 * week_offset + w days, whatever the weekday of now: a date whose
\* weekday is w, in the Monday-to-Sunday week week_offset weeks from now's.
C16_WeekdayOfShiftedWeek ==
  Combined =>
    LET m == Agg
        date == DatePlus(MondayOf(DateOf(arg.now)), 7 * m.week_offset + m.weekday)
    IN (OnWeekday(m) /\ m.weekday \in 0..6 /\ ~WeekendStart(m)) =>
         /\ ret.val = FullDay(date)
         /\ WeekdayOfDate(date) = m.weekday
         /\ MondayOf(date) = DatePlus(MondayOf(DateOf(arg.now)), 7 * m.week_offset)

\* xia zhou wu (Friday of next week) on Thursday 2026-02-12 is 2026-02-20
C16_Witness ==
  /\ Combined /\ arg.now = Now_Thu
  /\ arg.slots = <<WeekdaySlot(4, 1, FALSE)>>
  /\ ret.val = Ok(<<(<<2026, 2, 20, 0, 0, 0>>), (<<2026, 2, 20, 23, 59, 59>>)>>)

\* a count held within [lo, hi]
Clamped(n, lo, hi) == IF n < lo THEN lo ELSE IF n > hi THEN hi ELSE n

\* an offset of the given unit and of kind ago or after
OnOffset(m, unit) ==
  /\ m.offset_type \in {AGO, AFTER} /\ m.offset_value # None
  /\ m.offset_unit = unit
OffsetSign(m) == IF m.offset_type = AGO THEN -1 ELSE 1

\* the Monday-to-Sunday week k weeks from the week holding now
WholeWeek(now, k) ==
  LET monday == DatePlus(MondayOf(DateOf(now)), 7 * k)
  IN Ok(<<DayStart(monday), DayEnd(DatePlus(monday, 6))>>)

\* C17: a whole-week result is [Monday 00:00:00, Sunday 23:59:59] of one
\* calendar week: week_offset weeks from now's week in the weekday branch
\* with no weekday, and N weeks before or after it for an offset of N weeks
\* ago or after, N held within [1, 100].
C17_WholeWeek ==
  Combined =>
    LET m == Agg
    IN /\ (OnWeekday(m) /\ m.weekday = None) =>
            ret.val = WholeWeek(arg.now, m.week_offset)
       /\ OnOffset(m, UnitWeek(arg.lang)) =>
            ret.val = WholeWeek(arg.now, OffsetSign(m) * Clamped(m.offset_value, 1, 100))
       /\ ((OnWeekday(m) /\ m.weekday = None) \/ OnOffset(m, UnitWeek(arg.lang))) =>
            /\ Len(ret.val.val) = 2
            /\ LET start == <<ret.val.val[1][1], ret.val.val[1][2], ret.val.val[1][3]>>
                   end == <<ret.val.val[2][1], ret.val.val[2][2], ret.val.val[2][3]>>
               IN /\ WeekdayOfDate(start) = 0
                  /\ end = DatePlus(start, 6)

\* xia ge xing qi (next week) on Thursday 2026-02-12 is 2026-02-16 to 02-22
C17_Witness ==
  /\ Combined /\ arg.now = Now_Thu
  /\ arg.slots = <<WeekdaySlot(None, 1, TRUE)>>
  /\ ret.val = Ok(<<(<<2026, 2, 16, 0, 0, 0>>), (<<2026, 2, 22, 23, 59, 59>>)>>)

\* C18: in the weekday branch, a slot flagged as weekend start (weekday
\* Saturday and is_range_start) resolves to [Saturday 00:00:00, Sunday
\* 23:59:59]: the Saturday of the week week_offset weeks from now's week,
\* and the day after it.
C18_Weekend ==
  Combined =>
    LET m == Agg
        saturday == DatePlus(MondayOf(DateOf(arg.now)), 7 * m.week_offset + 5)
        sunday == DatePlus(saturday, 1)
    IN (OnWeekday(m) /\ WeekendStart(m)) =>
         /\ ret.val = Ok(<<DayStart(saturday), DayEnd(sunday)>>)
         /\ WeekdayOfDate(saturday) = 5 /\ WeekdayOfDate(sunday) = 6

\* xia zhou mo (the weekend of next week) on Thursday 2026-02-12
C18_Witness ==
  /\ Combined /\ arg.now = Now_Thu
  /\ arg.slots = <<WeekdaySlot(5, 1, TRUE)>>
  /\ ret.val = Ok(<<(<<2026, 2, 21, 0, 0, 0>>), (<<2026, 2, 22, 23, 59, 59>>)>>)

\* the month N months from now's month, N held within [1, 100], as
\* <<year, month>> by month number, and the range of a month: its first
\* day's first second to its last day's last second
ShiftedMonth(now, m) ==
  LET index == 12 * now.year + (now.month - 1)
                 + OffsetSign(m) * Clamped(m.offset_value, 1, 100)
  IN <<index \div 12, (index % 12) + 1>>
MonthRange(y, month) ==
  Ok(<<(<<y, month, 1, 0, 0, 0>>), (<<y, month, monthrange(y, month), 23, 59, 59>>)>>)

\* C19 as stated: an offset of N months ago or after resolves to the range
\* of the calendar month exactly N months before or after now's month, for
\* every now.
C19_MonthExactlyNAway ==
  Combined =>
    LET m == Agg
        ym == ShiftedMonth(arg.now, m)
    IN OnOffset(m, UnitMonth(arg.lang)) => ret.val = MonthRange(ym[1], ym[2])

\* C19: an offset of N months ago or after, N held within [1, 100],
\* resolves to [first day 00:00:00, last day 23:59:59] of the month N months
\* before or after now's month, in that month's year held within
\* [MIN_YEAR, MAX_YEAR]; the last day is the real last day of the month,
\* the day before the first of the next, also when now's day of the month
\* does not exist in it.
C19_MonthNAwayYearClamped ==
  Combined =>
    LET m == Agg
        ym == ShiftedMonth(arg.now, m)
        y == Clamped(ym[1], MIN_YEAR, MAX_YEAR)
    IN OnOffset(m, UnitMonth(arg.lang)) =>
         /\ ret.val = MonthRange(y, ym[2])
         /\ Len(ret.val.val) = 2
         /\ DatePlus(<<ret.val.val[2][1], ret.val.val[2][2], ret.val.val[2][3]>>, 1)[3] = 1

\* one month before 2025-03-31 is February 2025, which has no day 31
C19_Witness ==
  /\ Combined /\ arg.lang = CHINESE /\ arg.now = DT(2025, 3, 31, 9, 0, 0)
  /\ arg.slots = <<OffsetSlot(1, <<"yue">>, AGO)>>
  /\ ret.val = Ok(<<(<<2025, 2, 1, 0, 0, 0>>), (<<2025, 2, 28, 23, 59, 59>>)>>)

\* a timestamp shifted by a number of minutes: the date by day number, the
\* time of day by minute of the day, the second kept
MinutesShifted(now, minutes) ==
  LET total == 60 * now.hour + now.minute + minutes
      date == DatePlus(DateOf(now), total \div 1440)
      rest == total % 1440
  IN <<date[1], date[2], date[3], rest \div 60, rest % 60, now.second>>

\* C20: an offset of N hours or N minutes ago or after resolves to exactly
\* one timestamp, now shifted back or forward by N hours or N minutes and
\* printed to the second; N is held within [1, 100] for hours and within
\* [1, 1440] for minutes.
C20_HourMinuteOffset ==
  Combined =>
    LET m == Agg
    IN /\ OnOffset(m, UnitHour(arg.lang)) =>
            ret.val =
              Ok(<<MinutesShifted(arg.now,
                                  OffsetSign(m) * 60 * Clamped(m.offset_value, 1, 100))>>)
       /\ OnOffset(m, UnitMinute(arg.lang)) =>
            ret.val =
              Ok(<<MinutesShifted(arg.now,
                                  OffsetSign(m) * Clamped(m.offset_value, 1, 1440))>>)
\* an offset of kind inner or near with its count set, of the given unit
OnRanged(m, kind, unit) ==
  /\ m.offset_type = kind /\ m.offset_value # None
  /\ m.offset_unit = unit

\* the month k months from now's month as <<year, month>>, by month number
MonthPlus(now, k) ==
  LET index == 12 * now.year + (now.month - 1) + k
  IN <<index \div 12, (index % 12) + 1>>
FirstOfMonth(ym) == <<ym[1], ym[2], 1>>
LastOfMonth(ym) == <<ym[1], ym[2], monthrange(ym[1], ym[2])>>
Span(first, last) == Ok(<<DayStart(first), DayEnd(last)>>)

\* C21 as stated: an inner offset of N units, N held within [1, 100],
\* resolves to a range that starts at the beginning of now's unit and spans
\* exactly N units: [today, today + (N-1) days] for days, [this Monday, the
\* Sunday 7N-1 days later] for weeks, [first day of now's month, last day of
\* the month N-1 months later] for months, [Jan 1 of now's year, Dec 31 of
\* now's year + N-1] for years.
C21_InnerRange ==
  Combined =>
    LET m == Agg
        N == Clamped(m.offset_value, 1, 100)
        today == DateOf(arg.now)
        monday == MondayOf(today)
    IN /\ OnRanged(m, INNER, UnitDay(arg.lang)) =>
            ret.val = Span(today, DatePlus(today, N - 1))
       /\ OnRanged(m, INNER, UnitWeek(arg.lang)) =>
            ret.val = Span(monday, DatePlus(monday, 7 * N - 1))
       /\ OnRanged(m, INNER, UnitMonth(arg.lang)) =>
            ret.val = Span(FirstOfMonth(MonthPlus(arg.now, 0)),
                           LastOfMonth(MonthPlus(arg.now, N - 1)))
       /\ OnRanged(m, INNER, UnitYear(arg.lang)) =>
            ret.val = Span(<<arg.now.year, 1, 1>>, <<arg.now.year + N - 1, 12, 31>>)
\* C22 as stated: a near offset of N units, N held within [1, 100],
\* resolves to a range that ends at the end of now's unit and spans exactly
\* N units: [today - (N-1) days, today] for days, [the Monday N-1 weeks
\* before this Monday, this Sunday] for weeks, [first day of the month N-1
\* months before now's month, last day of now's month] for months, [Jan 1
\* of now's year - N + 1, Dec 31 of now's year] for years.
C22_NearRange ==
  Combined =>
    LET m == Agg
        N == Clamped(m.offset_value, 1, 100)
        today == DateOf(arg.now)
        monday == MondayOf(today)
    IN /\ OnRanged(m, NEAR, UnitDay(arg.lang)) =>
            ret.val = Span(DatePlus(today, -(N - 1)), today)
       /\ OnRanged(m, NEAR, UnitWeek(arg.lang)) =>
            ret.val = Span(DatePlus(monday, -7 * (N - 1)), DatePlus(monday, 6))
       /\ OnRanged(m, NEAR, UnitMonth(arg.lang)) =>
            ret.val = Span(FirstOfMonth(MonthPlus(arg.now, -(N - 1))),
                           LastOfMonth(MonthPlus(arg.now, 0)))
       /\ OnRanged(m, NEAR, UnitYear(arg.lang)) =>
            ret.val = Span(<<arg.now.year - N + 1, 1, 1>>, <<arg.now.year, 12, 31>>)
\* the date an explicit-date slot names: the slot's year, month and day
\* where set, now's otherwise
IfSet(v, default) == IF v # None THEN v ELSE default
ExplicitDate(m, now) ==
  <<IfSet(m.year, now.year), IfSet(m.month, now.month), IfSet(m.day, now.day)>>

\* C23: in the fallback branch, with no period and no hour: when a year,
\* month or day is set and the slot's values, completed with now's, are a
\* date of the calendar, the result is that date's full day, [00:00:00,
\* 23:59:59]; when none of the three is set the result is the empty list.
C23_ExplicitDate ==
  Combined =>
    LET m == Agg
        date == ExplicitDate(m, arg.now)
    IN (OnFallback(m) /\ m.period = NoneSeq /\ m.hour = None) =>
         /\ ((m.year # None \/ m.month # None \/ m.day # None) /\ IsDate(date)) =>
              ret.val = FullDay(date)
         /\ (m.year = None /\ m.month = None /\ m.day = None) => ret.val = Ok(<<>>)

\* 2024 nian 2 yue 29 ri, read on 2026-02-12: the leap day of 2024
C23_Witness ==
  /\ Combined /\ arg.now = Now_Thu
  /\ arg.slots = <<ExplicitDateSlot(2024, None, None), DateSlot(2, 29)>>
  /\ ret.val = Ok(<<(<<2024, 2, 29, 0, 0, 0>>), (<<2024, 2, 29, 23, 59, 59>>)>>)
\* a returned call of extract_all, the matches of the parser on its text,
\* and the position of a rule in the rule table of the call's language
ReturnedAll == call.pc = "returned" /\ call.op = "extract_all" /\ call.result.exc = "none"
MatchesOfCall ==
  IF NonEmpty(call.text) THEN parse(call.language, PatternsOf(call.language), call.text)
  ELSE <<>>
RuleIndex(lang, name) ==
  CHOOSE k \in 1..Len(PatternsOf(lang)) : PatternsOf(lang)[k].name = name

\* C24: a returned call of extract_all has exactly one entry per parser
\* match, nested and overlapping matches included, in parser order (by rule
\* of the table, then left to right within a rule); each entry carries the
\* match's text (the text between its offsets), rule name, category and
\* offsets, and the result of combine on that match's slot alone; and every
\* match the overlap resolver of extract keeps has an entry with the same
\* span and rule.
C24_ExtractAllEveryMatch ==
  ReturnedAll =>
    LET matches == MatchesOfCall
        entries == call.result.val
        kept == _remove_overlapping_matches(SortByStart(matches))
    IN /\ Len(entries) = Len(matches)
       /\ \A i \in 1..Len(entries) :
            /\ entries[i].pattern_name = matches[i].pattern_name
            /\ entries[i].slot_type = matches[i].slot_type
            /\ entries[i].start_pos = matches[i].start_pos
            /\ entries[i].end_pos = matches[i].end_pos
            /\ entries[i].matched_text =
                 SubSeq(call.text, entries[i].start_pos + 1, entries[i].end_pos)
            /\ Ok(entries[i].time_range) =
                 combine(call.language, <<matches[i].slot>>, call.now)
       /\ \A i, j \in 1..Len(entries) :
            i < j =>
              LET ri == RuleIndex(call.language, entries[i].pattern_name)
                  rj == RuleIndex(call.language, entries[j].pattern_name)
              IN ri < rj \/ (ri = rj /\ entries[i].start_pos < entries[j].start_pos)
       /\ \A k \in 1..Len(kept) :
            \E i \in 1..Len(entries) :
              /\ entries[i].start_pos = kept[k].start_pos
              /\ entries[i].end_pos = kept[k].end_pos
              /\ entries[i].pattern_name = kept[k].pattern_name

\* jin 3 tian (the last 3 days) on 2026-02-12: the match of offset_near and
\* the match of num_unit nested in it, which extract drops
C24_Witness ==
  /\ ReturnedAll /\ call.language = CHINESE
  /\ call.text = T_near3_zh /\ call.now = Now_Thu
  /\ call.result.val =
       <<[matched_text |-> <<"jin_near", "3", "tian">>, pattern_name |-> "offset_near",
          slot_type |-> "relative", start_pos |-> 0, end_pos |-> 3,
          time_range |-> <<(<<2026, 2, 10, 0, 0, 0>>), (<<2026, 2, 12, 23, 59, 59>>)>>],
         [matched_text |-> <<"3", "tian">>, pattern_name |-> "num_unit",
          slot_type |-> "relative", start_pos |-> 1, end_pos |-> 3,
          time_range |-> <<(<<2026, 2, 10, 0, 0, 0>>), (<<2026, 2, 12, 23, 59, 59>>)>>]>>
  /\ Len(_remove_overlapping_matches(SortByStart(MatchesOfCall))) = 1
\* a finished call of parse, and the rules that store an offset count
Parsed == ret.done /\ arg.fn = "parse"
OffsetRules ==
  {"offset_ago", "offset_after", "offset_inner", "offset_near", "hour_offset_ago",
   "hour_offset_after", "minute_offset_ago", "minute_offset_after", "num_unit"}

\* C25 as stated: every match of an offset rule stores an offset count
\* within [1, 1000]: out-of-bounds counts are clamped; and numerals are
\* resolved, so that the offset of shi er tian qian is 12.
C25_OffsetCountBounded ==
  Parsed =>
    /\ \A i \in 1..Len(ret.val) :
         ret.val[i].pattern_name \in OffsetRules =>
           ret.val[i].slot.offset_value \in 1..1000
    /\ (arg.lang = CHINESE /\ arg.text = T_ago12_zh) =>
         \E i \in 1..Len(ret.val) : ret.val[i].slot.offset_value = 12
\* C26 as stated: has_date() is true exactly when at least one of year,
\* month, day, weekday, quarter and relative_day is set, whatever the value
\* (weekday 0-6 with Monday = 0, quarter 0-4), and so is false when only
\* time fields are set; has_offset() is true exactly when the offset kind
\* is not none and the offset count is set.
C26_HasDateHasOffset ==
  LET s == arg.slot
  IN /\ (ret.done /\ arg.fn = "has_date") =>
          (ret.val <=> (\/ s.year # None \/ s.month # None \/ s.day # None
                        \/ s.weekday # None \/ s.quarter # None
                        \/ s.relative_day # NoneSeq))
     /\ (ret.done /\ arg.fn = "has_offset") =>
          (ret.val <=> (s.offset_type # NONE /\ s.offset_value # None))
\* C27: when extract sorts and resolves matches of which two come from
\* different rules and cover the same span, the one of the later rule of
\* the rule table is dropped, and the one of the earlier rule survives
\* unless a match over a wider span, or a twin of a still earlier rule,
\* covers it.
C27_EarlierRuleSurvives ==
  (ret.done /\ arg.fn = "resolve" /\ ret.presorted) =>
    LET in == arg.results
        out == Members(ret.val)
        RuleOf(m) == RuleIndex(CHINESE, m.pattern_name)
    IN \A i, j \in 1..Len(in) :
         (SpanOf(in[i]) = SpanOf(in[j]) /\ RuleOf(in[i]) < RuleOf(in[j])) =>
           /\ in[j] \notin out
           /\ \/ in[i] \in out
              \/ \E k \in 1..Len(in) :
                   \/ Inside(in[i], in[k]) /\ SpanOf(in[k]) # SpanOf(in[i])
                   \/ SpanOf(in[k]) = SpanOf(in[i]) /\ RuleOf(in[k]) < RuleOf(in[i])

\* matches of the first and the third rule over one span and a match of the
\* second rule beside them: the first and the second survive
C27_Witness ==
  /\ ret.done /\ arg.fn = "resolve" /\ ret.presorted
  /\ arg.results = <<MatchOf(1, <<1, 3>>), MatchOf(2, <<0, 1>>), MatchOf(3, <<1, 3>>)>>
  /\ ret.val = <<MatchOf(2, <<0, 1>>), MatchOf(1, <<1, 3>>)>>
\* the offset triple of a slot, and the slots a rule can store: a count
\* comes with a kind, except in the slot of the relative-year rule for
\* this year (count 0, unit year, kind none)
OffsetTriple(s) == <<s.offset_value, s.offset_unit, s.offset_type>>
RuleStored(lang, s) ==
  s.offset_value = None \/ s.offset_type # NONE \/ s.relative_day = TokenThisYear(lang)

\* C28 as stated: after merging a sequence of slots stored by the rules,
\* the offset triple of the aggregate is the triple of one single slot of
\* the sequence, the last that carries an offset; a slot of kind none
\* changes neither count nor unit of an earlier offset.
C28_OffsetTripleOfOneSlot ==
  Combined =>
    LET slots == arg.slots
        carriers == {i \in 1..Len(slots) : has_offset(slots[i])}
        last == CHOOSE i \in carriers : \A k \in carriers : k <= i
    IN ((\A i \in 1..Len(slots) : RuleStored(arg.lang, slots[i])) /\ carriers # {}) =>
         OffsetTriple(Agg) = OffsetTriple(slots[last])
\* C29 as stated: the end hour or end weekday a range rule stashes in the
\* second field of its slot (the slot flagged is_range_start) never reaches
\* the output: the seconds of every returned timestamp are 00 or 59 of a
\* range boundary, the seconds a clock rule captured, or now's seconds.
C29_StashedSecondNeverPrinted ==
  (Combined /\ ret.val.exc = "none") =>
    LET captured == {arg.slots[i].second : i \in
                       {k \in 1..Len(arg.slots) :
                          ~arg.slots[k].is_range_start /\ arg.slots[k].second # None}}
    IN \A i \in 1..Len(ret.val.val) :
         Len(ret.val.val[i]) = 6 =>
           ret.val.val[i][6] \in {0, 59, arg.now.second} \cup captured
\* chronological order of two printed timestamps (a timestamp printed to
\* the minute stands for its second 00)
SecondOf(ts) == IF Len(ts) = 6 THEN ts[6] ELSE 0
NotAfter(a, b) ==
  LET da == toordinal(a[1], a[2], a[3])
      db == toordinal(b[1], b[2], b[3])
      sa == 3600 * a[4] + 60 * a[5] + SecondOf(a)
      sb == 3600 * b[4] + 60 * b[5] + SecondOf(b)
  IN da < db \/ (da = db /\ sa <= sb)

\* C30 as stated: for every aggregate slot and every now with its year in
\* [MIN_YEAR, MAX_YEAR], a list returned by combine has zero, one or two
\* elements, and in a list of two the first timestamp is not after the
\* second, also for inner and near offsets of months and years whose
\* shifted month is clamped into [MIN_YEAR, MAX_YEAR].
C30_RangeWellFormed ==
  (Combined /\ ret.val.exc = "none" /\ arg.now.year \in MIN_YEAR..MAX_YEAR) =>
    /\ Len(ret.val.val) \in {0, 1, 2}
    /\ Len(ret.val.val) = 2 => NotAfter(ret.val.val[1], ret.val.val[2])

====
